---------------------------- MODULE Spec2Model ----------------------------
(***************************************************************************)
(* Backtesting engine of app-python/backend/services/backtest.py.          *)
(*                                                                         *)
(* Conventions                                                             *)
(*   - Arrays are TLA+ sequences, so position k of the Python code is      *)
(*     position k+1 here.                                                  *)
(*   - float64 quantities are exact rationals <<n, d>> with d > 0, kept    *)
(*     in lowest terms; NaN is <<0, 0>>.                                   *)
(*   - Timestamps are whole hours counted from 2014-01-01 00:00.           *)
(*   - A DataFrame is the sequence of its rows; every row carries its      *)
(*     index label (idx), because boolean-mask filtering keeps labels.     *)
(***************************************************************************)
EXTENDS Integers, Sequences, FiniteSets, TLC

VARIABLES
    entrypoint,          \* which function of the engine this run calls
    req,                 \* the arguments of the call other than the frames
    df, df1, df2, price_df,                  \* input DataFrames
    df_filtered, df1_filtered, df2_filtered, price_df_filtered,
    signals,             \* [index, entries, exits], the signals DataFrame
    close, entries, exits,                   \* arrays handed to from_signals
    freq,                \* frequency handed to from_signals
    bar,                 \* next bar of the simulation loop (1-based)
    cash, position,      \* simulator state: free cash and position size
    orders,              \* order records filled so far
    value,               \* portfolio.value(): one number per simulated bar
    cycles,              \* history: number of LONG -> FLAT transitions
    results,             \* <<>>, or <<d>> once the dict d is returned
    error,               \* raised exception, or "none"
    hyperliquid_trading_service,   \* the module's one HyperliquidTradingService
    pc                   \* position in the running function

vars == <<entrypoint, req, df, df1, df2, price_df, df_filtered, df1_filtered,
          df2_filtered, price_df_filtered, signals, close, entries, exits,
          freq, bar, cash, position, orders, value, cycles, results, error,
          hyperliquid_trading_service, pc>>

inputVars == <<entrypoint, req, df, df1, df2, price_df,
               hyperliquid_trading_service>>
frameVars == <<df_filtered, df1_filtered, df2_filtered, price_df_filtered>>
simVars == <<bar, cash, position, orders, value, cycles>>

(* hyperliquid_trading_service.py, __init__ and the instance made at import *)
NoClient == "None"
Unset == "unset"
HyperliquidTradingService ==
    [info_client |-> NoClient, exchange_client |-> NoClient,
     account_address |-> Unset, secret_key |-> Unset, is_connected |-> FALSE]

-----------------------------------------------------------------------------
(* Bounds of the model *)

MaxBars == 3

MaxFilterTicks == 3

MaxTicks == 3

MaxScanTicks == 4

MaxOld == 2

-----------------------------------------------------------------------------
(* Exact arithmetic standing in for float64 *)

RECURSIVE GCD(_, _)
GCD(a, b) ==
    IF b = 0 THEN a ELSE GCD(b, a % b)

Abs(x) ==
    IF x < 0 THEN -x ELSE x

Norm(n, d) ==
    LET g == GCD(Abs(n), Abs(d))
        s == IF d < 0 THEN -1 ELSE 1
    IN  IF n = 0 THEN <<0, 1>> ELSE <<s * (n \div g), s * (d \div g)>>

R(n) == <<n, 1>>

Frac(n, d) == Norm(n, d)

RMul(a, b) ==
    LET x == Norm(a[1], b[2])
        y == Norm(b[1], a[2])
    IN  Norm(x[1] * y[1], x[2] * y[2])

RDiv(a, b) ==
    RMul(a, Norm(b[2], b[1]))

RAdd(a, b) ==
    LET g == GCD(a[2], b[2])
    IN  Norm(a[1] * (b[2] \div g) + b[1] * (a[2] \div g), (a[2] \div g) * b[2])

RNeg(a) == <<-a[1], a[2]>>

RSub(a, b) == RAdd(a, RNeg(b))

RLt(a, b) == RSub(a, b)[1] < 0

RLe(a, b) == RSub(a, b)[1] <= 0

RGt(a, b) == RLt(b, a)

RGe(a, b) == RLe(b, a)

ROne == <<1, 1>>

RZero == <<0, 1>>

Min(a, b) == IF a <= b THEN a ELSE b

Range(s) == {s[k] : k \in DOMAIN s}

-----------------------------------------------------------------------------
(* Calendar: the year of a timestamp and the first hour of a year *)

IsLeap(y) == (y % 4 = 0 /\ y % 100 # 0) \/ y % 400 = 0

DaysIn(y) == IF IsLeap(y) THEN 366 ELSE 365

RECURSIVE YearStartDay(_)
YearStartDay(y) ==
    IF y <= 2014 THEN 0 ELSE YearStartDay(y - 1) + DaysIn(y - 1)

YearStart(y) == 24 * YearStartDay(y)

Years == 2014..2026

YearOf(t) == CHOOSE y \in Years : YearStart(y) <= t /\ t < YearStart(y + 1)

-----------------------------------------------------------------------------
(* filter_data_by_period *)

WindowTags ==
    {"1w", "1m", "3m", "6m", "1y", "2y", "3y", "4y", "5y", "6y", "7y", "8y",
     "9y", "10y"}

RelativeTags == WindowTags \cup {"ytd"}

(* BacktestRequest.period also admits the calendar years 2015 .. 2025 *)
YearTags ==
    {"2015", "2016", "2017", "2018", "2019", "2020", "2021", "2022", "2023",
     "2024", "2025"}

PeriodTags == RelativeTags \cup YearTags \cup {"all"}

(* the day count each branch of the elif chain subtracts *)
WindowDays(period) ==
    CASE period = "1w" -> 7
      [] period = "1m" -> 30
      [] period = "3m" -> 90
      [] period = "6m" -> 180
      [] period = "1y" -> 365
      [] period = "2y" -> 2 * 365
      [] period = "3y" -> 3 * 365
      [] period = "4y" -> 4 * 365
      [] period = "5y" -> 5 * 365
      [] period = "6y" -> 6 * 365
      [] period = "7y" -> 7 * 365
      [] period = "8y" -> 8 * 365
      [] period = "9y" -> 9 * 365
      [] period = "10y" -> 10 * 365

(* df['t'].max() *)
latest_date(frame) ==
    CHOOSE t \in {frame[k].t : k \in DOMAIN frame} :
        \A k \in DOMAIN frame : frame[k].t <= t

start_date(frame, period) ==
    IF period = "ytd"
    THEN YearStart(YearOf(latest_date(frame)))
    ELSE latest_date(frame) - 24 * WindowDays(period)

KeepFromStrict(frame, start) ==
    LET Keep(row) == row.t > start IN SelectSeq(frame, Keep)

(* df[df['t'] >= start_date]: the rows keep their index labels *)
KeepFrom(frame, start) ==
    LET Keep(row) == row.t >= start IN SelectSeq(frame, Keep)

(* On an empty frame the latest date is NaT and the function raises while  *)
(* it formats the log line (for ytd while it builds the Timestamp); which  *)
(* exception class is raised is left open.                                 *)
FilterRaises(frame, period) == period \in RelativeTags /\ frame = <<>>

FilterErrors == {"ValueError", "TypeError"}

filter_data_by_period(frame, period) ==
    IF period = "all" THEN frame
    ELSE IF period \in RelativeTags
    THEN KeepFrom(frame, start_date(frame, period))
    ELSE frame

-----------------------------------------------------------------------------
(* Series arithmetic of pandas.  A comparison with NaN is False. *)

NaN == <<0, 0>>

IsNaN(x) == x[2] = 0

Gt(a, b) == ~IsNaN(a) /\ ~IsNaN(b) /\ RGt(a, b)

Ge(a, b) == ~IsNaN(a) /\ ~IsNaN(b) /\ RGe(a, b)

Lt(a, b) == Gt(b, a)

(* a comparison with a missing value read as true *)
LeOrMissing(a, b) == IsNaN(a) \/ IsNaN(b) \/ RLe(a, b)

LeStrict(a, b) == ~IsNaN(a) /\ ~IsNaN(b) /\ RLt(a, b)

Le(a, b) == Ge(b, a)

ShiftForward(s) == [k \in DOMAIN s |-> IF k = Len(s) THEN NaN ELSE s[k + 1]]

ShiftZeroFill(s) == [k \in DOMAIN s |-> IF k = 1 THEN RZero ELSE s[k - 1]]

(* Series.shift(1) *)
Shift(s) == [k \in DOMAIN s |-> IF k = 1 THEN NaN ELSE s[k - 1]]

Column(frame, name) == [k \in DOMAIN frame |-> frame[k][name]]

Labels(frame) == [k \in DOMAIN frame |-> frame[k].idx]

RECURSIVE SumTo(_, _, _)
SumTo(s, lo, hi) ==
    IF lo > hi THEN RZero ELSE RAdd(s[hi], SumTo(s, lo, hi - 1))

WindowLo(k, window) == IF k - window + 1 < 1 THEN 1 ELSE k - window + 1

(* Series.rolling(window, min_periods).mean() *)
RollingMean(s, window, min_periods) ==
    [k \in DOMAIN s |->
        LET lo == WindowLo(k, window)
        IN  IF k - lo + 1 < min_periods THEN NaN
            ELSE RDiv(SumTo(s, lo, k), R(k - lo + 1))]

RECURSIVE Pow(_, _)
Pow(b, e) == IF e = 0 THEN 1 ELSE b * Pow(b, e - 1)

(* Series.ewm(span).mean() with adjust=True: weights (1 - alpha)^j, where   *)
(* 1 - alpha = (span - 1) / (span + 1)                                      *)
EwmAdjusted(s, span) ==
    [k \in DOMAIN s |->
        LET W(j) == Frac(Pow(span - 1, j), Pow(span + 1, j))
            num == [j \in 1..k |-> RMul(W(k - j), s[j])]
            den == [j \in 1..k |-> W(k - j)]
        IN  RDiv(SumTo(num, 1, k), SumTo(den, 1, k))]

(* Series.ewm(span, adjust=False).mean(): y[0] = x[0],                      *)
(* y[t] = (1 - alpha) y[t-1] + alpha x[t], alpha = 2 / (span + 1)           *)
RECURSIVE EwmRecursiveAt(_, _, _)
EwmRecursiveAt(s, span, k) ==
    IF k = 1 THEN s[1]
    ELSE RAdd(RMul(Frac(span - 1, span + 1), EwmRecursiveAt(s, span, k - 1)),
              RMul(Frac(2, span + 1), s[k]))

EwmRecursive(s, span) == [k \in DOMAIN s |-> EwmRecursiveAt(s, span, k)]

(* the values of s[lo..hi] in ascending order *)
RECURSIVE SortedOf(_)
SortedOf(bag) ==
    IF bag = <<>> THEN <<>>
    ELSE LET m == CHOOSE k \in DOMAIN bag : \A j \in DOMAIN bag : RLe(bag[k], bag[j])
         IN  <<bag[m]>> \o SortedOf([j \in 1..(Len(bag) - 1) |->
                                        IF j < m THEN bag[j] ELSE bag[j + 1]])

MedianOf(w) ==
    LET srt == SortedOf(w)
        n == Len(w)
    IN  IF n % 2 = 1 THEN srt[(n + 1) \div 2]
        ELSE RDiv(RAdd(srt[n \div 2], srt[n \div 2 + 1]), R(2))

(* Series.rolling(window, min_periods=1).median() *)
RollingMedian(s, window) ==
    [k \in DOMAIN s |-> MedianOf(SubSeq(s, WindowLo(k, window), k))]

-----------------------------------------------------------------------------
(* services/transform.py *)

sma(s, period) == RollingMean(s, period, 1)

ema(s, period) == EwmRecursive(s, period)

median_filter(s, period) == RollingMedian(s, period)

apply_single_transformation(s, transform_type, period) ==
    CASE transform_type = "none" -> s
      [] transform_type = "sma" -> sma(s, period)
      [] transform_type = "ema" -> ema(s, period)
      [] transform_type = "median" -> median_filter(s, period)

(* apply_transformations: adds the two transformed columns, keeps v and usd *)
apply_transformations(frame, transform_config) ==
    LET vt == apply_single_transformation(Column(frame, "v"),
                transform_config.v.type, transform_config.v.period)
        ut == apply_single_transformation(Column(frame, "usd"),
                transform_config.usd.type, transform_config.usd.period)
    IN  [k \in DOMAIN frame |->
            [idx |-> frame[k].idx, t |-> frame[k].t, v |-> frame[k].v,
             usd |-> frame[k].usd, v_transformed |-> vt[k],
             usd_transformed |-> ut[k]]]

-----------------------------------------------------------------------------
(* Signal generation *)

SignalColumn(apply_to) ==
    IF apply_to = "v" THEN "v_transformed" ELSE "usd_transformed"

(* DataFrame({'entries', 'exits'}).fillna(False) over the index of series *)
SignalFrame(index, en, ex) ==
    [index |-> index, entries |-> en, exits |-> ex]

ThresholdSignalsStrictCross(frame, threshold_entry, threshold_exit, apply_to) ==
    LET series == Column(frame, SignalColumn(apply_to))
        prev == Shift(series)
    IN  SignalFrame(Labels(frame),
            [k \in DOMAIN series |->
                Le(prev[k], threshold_entry) /\ Gt(series[k], threshold_entry)],
            [k \in DOMAIN series |->
                Ge(prev[k], threshold_exit) /\ Lt(series[k], threshold_exit)])

(* entries and exits by the level of the series alone *)
ThresholdSignalsByLevel(frame, threshold_entry, threshold_exit, apply_to) ==
    LET series == Column(frame, SignalColumn(apply_to))
    IN  SignalFrame(Labels(frame),
            [k \in DOMAIN series |-> Ge(series[k], threshold_entry)],
            [k \in DOMAIN series |-> Le(series[k], threshold_exit)])

generate_threshold_signals(frame, threshold_entry, threshold_exit, apply_to) ==
    LET series == Column(frame, SignalColumn(apply_to))
        prev == Shift(series)
    IN  SignalFrame(Labels(frame),
            [k \in DOMAIN series |->
                Lt(prev[k], threshold_entry) /\ Ge(series[k], threshold_entry)],
            [k \in DOMAIN series |->
                Gt(prev[k], threshold_exit) /\ Le(series[k], threshold_exit)])

(* fast crosses above slow at k *)
CrossUp(fast, slow, k) ==
    Gt(fast[k], slow[k]) /\ Le(Shift(fast)[k], Shift(slow)[k])

(* fast crosses below slow at k *)
CrossDown(fast, slow, k) ==
    Lt(fast[k], slow[k]) /\ Ge(Shift(fast)[k], Shift(slow)[k])

Cross(direction, fast, slow, k) ==
    IF direction = "up" THEN CrossUp(fast, slow, k) ELSE CrossDown(fast, slow, k)

(* the moving average of generate_crossover_signals: min_periods = 1 *)
CrossoverMA(series, ma_type, period) ==
    IF ma_type = "sma" THEN RollingMean(series, period, 1)
    ELSE EwmAdjusted(series, period)

(* exits taken from the entry pair of averages *)
CrossoverSignalsSharedPair(frame, apply_to, cs) ==
    LET series == Column(frame, SignalColumn(apply_to))
        entry_fast == CrossoverMA(series, cs.entry_type, cs.entry_fast_period)
        entry_slow == CrossoverMA(series, cs.entry_type, cs.entry_slow_period)
    IN  SignalFrame(Labels(frame),
            [k \in DOMAIN series |->
                Cross(cs.entry_direction, entry_fast, entry_slow, k)],
            [k \in DOMAIN series |->
                Cross(cs.exit_direction, entry_fast, entry_slow, k)])

generate_crossover_signals(frame, apply_to, cs) ==
    LET series == Column(frame, SignalColumn(apply_to))
        entry_fast == CrossoverMA(series, cs.entry_type, cs.entry_fast_period)
        entry_slow == CrossoverMA(series, cs.entry_type, cs.entry_slow_period)
        exit_fast == CrossoverMA(series, cs.exit_type, cs.exit_fast_period)
        exit_slow == CrossoverMA(series, cs.exit_type, cs.exit_slow_period)
    IN  SignalFrame(Labels(frame),
            [k \in DOMAIN series |->
                Cross(cs.entry_direction, entry_fast, entry_slow, k)],
            [k \in DOMAIN series |->
                Cross(cs.exit_direction, exit_fast, exit_slow, k)])

(* generate_multi_dataset_crossover_signals: the placeholder reached from   *)
(* generate_signals returns no signal at all                                *)
generate_multi_dataset_crossover_signals(frame) ==
    SignalFrame([k \in DOMAIN frame |-> k - 1],
                [k \in DOMAIN frame |-> FALSE],
                [k \in DOMAIN frame |-> FALSE])

(* generate_signals: the branch the dispatch on strategy_type takes; an    *)
(* optional strategy is <<>> (None) or <<s>>; "raise" is the ValueError    *)
(* of the else branch                                                      *)
SignalsBranch(r) ==
    IF r.strategy_type = "threshold" THEN "threshold"
    ELSE IF r.strategy_type = "crossover" /\ r.crossover_strategy # <<>>
    THEN "crossover"
    ELSE IF /\ r.strategy_type = "multi_dataset_crossover"
            /\ r.multi_dataset_crossover_strategy # <<>>
    THEN "multi_dataset_crossover"
    ELSE "raise"

generate_signals(frame, r) ==
    CASE SignalsBranch(r) = "threshold" ->
            generate_threshold_signals(frame, r.threshold_entry,
                                       r.threshold_exit, r.apply_to)
      [] SignalsBranch(r) = "crossover" ->
            generate_crossover_signals(frame, r.apply_to, r.crossover_strategy[1])
      [] SignalsBranch(r) = "multi_dataset_crossover" ->
            generate_multi_dataset_crossover_signals(frame)

-----------------------------------------------------------------------------
(* apply_take_profit_stop_loss.  Positions are 1-based here: the code's    *)
(* array index a is position a + 1.  sig is the frame of natural signals,  *)
(* whose index holds the labels the period filter kept.                    *)

PriceChangePct(current_price, entry_price) ==
    RDiv(RSub(current_price, entry_price), entry_price)

TakeProfitHit(st, change) ==
    st.use_take_profit /\ RGe(change, Frac(st.take_profit_pct, 100))

StopLossHit(st, change) ==
    st.use_stop_loss /\ RLe(change, RNeg(Frac(st.stop_loss_pct, 100)))

(* exits[entry_idx:] is a slice by POSITION although entry_idx is a label: *)
(* it holds the positions from label + 1 on (1-based)                      *)
SliceStart(sig, e) == sig.index[e] + 1

(* first position of a natural exit in exits[entry_idx:], or 0 *)
NextExit(sig, e) ==
    LET cand == {x \in DOMAIN sig.exits : x >= SliceStart(sig, e) /\ sig.exits[x]}
    IN  IF cand = {} THEN 0 ELSE CHOOSE x \in cand : \A y \in cand : x <= y

(* range(start_array_idx, end_array_idx), cut at len(prices) *)
ScanRange(prices, sig, e) ==
    LET nx == NextExit(sig, e)
        last == IF nx = 0 THEN Len(prices) ELSE Min(nx - 1, Len(prices))
    IN  (e + 1)..last

(* first scanned position where take profit or stop loss fires, or 0 *)
FirstHit(prices, sig, e, st) ==
    LET hits == {i \in ScanRange(prices, sig, e) :
                    LET change == PriceChangePct(prices[i], prices[e])
                    IN  TakeProfitHit(st, change) \/ StopLossHit(st, change)}
    IN  IF hits = {} THEN 0 ELSE CHOOSE i \in hits : \A j \in hits : i <= j

EntryPositions(sig) == {e \in DOMAIN sig.entries : sig.entries[e]}

(* prices[entry_array_idx] and entries.index[i] raise IndexError outside    *)
(* their arrays                                                            *)
ScanRaises(prices, sig, e, st) ==
    \/ e > Len(prices)
    \/ FirstHit(prices, sig, e, st) > Len(sig.entries)

(* the entries are handled in order; the first one that raises ends the    *)
(* call                                                                    *)
TpSlRaises(prices, sig, st) ==
    \E e \in EntryPositions(sig) : ScanRaises(prices, sig, e, st)

ForcedExits(prices, sig, st) ==
    {FirstHit(prices, sig, e, st) : e \in EntryPositions(sig)} \ {0}

apply_take_profit_stop_loss(prices, sig, st) ==
    [k \in DOMAIN sig.exits |-> sig.exits[k] \/ k \in ForcedExits(prices, sig, st)]

-----------------------------------------------------------------------------
(* generate_multi_dataset_crossover_signals_impl *)

(* the moving average of the multi-dataset strategy: rolling() with its    *)
(* default min_periods = window                                            *)
MultiMA(series, ma_type, period) ==
    IF ma_type = "sma" THEN RollingMean(series, period, period)
    ELSE EwmAdjusted(series, period)

(* the whole array, whatever n is *)
TakeAll(s, n) == s

(* s.iloc[:n] *)
Take(s, n) == SubSeq(s, 1, n)

(* ma1.iloc[:min_len] and ma2.iloc[:min_len] with their labels *)
AlignedLen(f1, f2) == Min(Len(f1), Len(f2))

(* Series > Series raises ValueError unless both carry the same labels *)
SameLabels(f1, f2) ==
    Take(Labels(f1), AlignedLen(f1, f2)) = Take(Labels(f2), AlignedLen(f1, f2))

NaturalSignals(f1, f2, st) ==
    LET n == AlignedLen(f1, f2)
        ma1 == Take(MultiMA(Column(f1, st.dataset1_indicator),
                            st.dataset1_ma_type, st.dataset1_ma_period), n)
        ma2 == Take(MultiMA(Column(f2, st.dataset2_indicator),
                            st.dataset2_ma_type, st.dataset2_ma_period), n)
    IN  SignalFrame(Take(Labels(f1), n),
            [k \in 1..n |-> Cross(st.entry_direction, ma1, ma2, k)],
            [k \in 1..n |-> Cross(st.exit_direction, ma1, ma2, k)])

UsesTpSl(st) == st.use_take_profit \/ st.use_stop_loss

(* "none", or the exception the call raises *)
MultiSignalsError(f1, f2, pf, st) ==
    IF ~SameLabels(f1, f2) THEN "ValueError"
    ELSE IF /\ UsesTpSl(st)
            /\ TpSlRaises(Column(pf, "usd"), NaturalSignals(f1, f2, st), st)
    THEN "IndexError"
    ELSE "none"

generate_multi_dataset_crossover_signals_impl(f1, f2, pf, st) ==
    LET nat == NaturalSignals(f1, f2, st)
    IN  IF UsesTpSl(st)
        THEN SignalFrame(nat.index, nat.entries,
                         apply_take_profit_stop_loss(Column(pf, "usd"), nat, st))
        ELSE nat

-----------------------------------------------------------------------------
(* vbt.Portfolio.from_signals as configured by run_backtest:               *)
(*   size = inf (default), direction long-only (default),                  *)
(*   accumulate = False, upon_long_conflict = 'ignore'.                    *)

Long == position # RZero

(* upon_long_conflict: what remains of the two signals of one bar *)
ResolveConflictEntryWins(is_entry, is_exit) ==
    [entry |-> is_entry, exit |-> is_exit /\ ~is_entry]

ResolveConflict(is_entry, is_exit) ==
    IF is_entry /\ is_exit
    THEN [entry |-> FALSE, exit |-> FALSE]          \* 'ignore'
    ELSE [entry |-> is_entry, exit |-> is_exit]

BuyOrderFeeRebate(k, price, cash_now, fees, slippage) ==
    LET adj_price == RMul(price, RAdd(ROne, slippage))
        acq_cash  == RMul(cash_now, RAdd(ROne, fees))
    IN  [idx |-> k, side |-> "Buy", price |-> adj_price,
         size |-> RDiv(acq_cash, adj_price),
         fees |-> RSub(cash_now, acq_cash)]

(* Buy with all free cash at close * (1 + slippage); fees are a fraction   *)
(* of the order value, paid out of the same cash.                          *)
BuyOrder(k, price, cash_now, fees, slippage) ==
    LET adj_price == RMul(price, RAdd(ROne, slippage))
        acq_cash  == RDiv(cash_now, RAdd(ROne, fees))
    IN  [idx |-> k, side |-> "Buy", price |-> adj_price,
         size |-> RDiv(acq_cash, adj_price),
         fees |-> RSub(cash_now, acq_cash)]

SellOrderAtClose(k, price, size_now, fees, slippage) ==
    [idx |-> k, side |-> "Sell", price |-> price,
     size |-> size_now,
     fees |-> RMul(RMul(size_now, price), fees)]

(* Sell the whole position at close * (1 - slippage). *)
SellOrder(k, price, size_now, fees, slippage) ==
    LET adj_price == RMul(price, RSub(ROne, slippage))
    IN  [idx |-> k, side |-> "Sell", price |-> adj_price,
         size |-> size_now,
         fees |-> RMul(RMul(size_now, adj_price), fees)]

(* accumulate = False: an entry is executed only when flat, an exit only   *)
(* when long.                                                              *)

WantsBuy(sig, long) == sig.entry /\ ~long

WantsSellToggle(sig, long) == (sig.exit \/ sig.entry) /\ long

WantsSell(sig, long) == sig.exit /\ long

(* One iteration of the simulation loop of from_signals. *)
SimBar ==
    /\ pc = "simulate"
    /\ bar <= Len(close)
    /\ LET sig == ResolveConflict(entries[bar], exits[bar])
           buy == BuyOrder(bar, close[bar], cash, req.fees, req.slippage)
           sell == SellOrder(bar, close[bar], position, req.fees, req.slippage)
       IN  /\ IF WantsBuy(sig, Long)
              THEN /\ cash' = RSub(cash, RAdd(RMul(buy.size, buy.price), buy.fees))
                   /\ position' = RAdd(position, buy.size)
                   /\ orders' = Append(orders, buy)
                   /\ cycles' = cycles
              ELSE IF WantsSell(sig, Long)
              THEN /\ cash' = RAdd(cash, RSub(RMul(sell.size, sell.price), sell.fees))
                   /\ position' = RZero
                   /\ orders' = Append(orders, sell)
                   /\ cycles' = IF Long THEN cycles + 1 ELSE cycles
              ELSE UNCHANGED <<cash, position, orders, cycles>>
           /\ value' = Append(value, RAdd(cash', RMul(position', close[bar])))
    /\ bar' = bar + 1
    /\ UNCHANGED <<inputVars, frameVars, signals, close, entries, exits,
                   freq, results, error, pc>>

(* The loop is over: from_signals returns the portfolio. *)
SimEnd ==
    /\ pc = "simulate"
    /\ bar > Len(close)
    /\ pc' = "metrics"
    /\ UNCHANGED <<inputVars, frameVars, signals, close, entries, exits,
                   freq, simVars, results, error>>

-----------------------------------------------------------------------------
(* portfolio.trades.records_readable: orders paired into trades.  A buy    *)
(* that was never sold is reported too, as a trade of status Open whose    *)
(* exit is the last bar at its close, without exit fees.                   *)

TradeRecord(buy, exit_idx, exit_price, exit_fees, status) ==
    LET pnl == RSub(RSub(RMul(RSub(exit_price, buy.price), buy.size), buy.fees),
                    exit_fees)
    IN  [entry_idx |-> buy.idx, exit_idx |-> exit_idx,
         avg_entry_price |-> buy.price, avg_exit_price |-> exit_price,
         size |-> buy.size, pnl |-> pnl,
         return |-> RDiv(pnl, RMul(buy.price, buy.size)),
         entry_fees |-> buy.fees, exit_fees |-> exit_fees,
         status |-> status]

ClosedTrade(ords, j) ==
    TradeRecord(ords[j], ords[j + 1].idx, ords[j + 1].price, ords[j + 1].fees,
                "Closed")

OpenTradeForceClosed(ords, j, cl) ==
    LET sell == SellOrder(Len(cl), cl[Len(cl)], ords[j].size, req.fees,
                          req.slippage)
    IN  TradeRecord(ords[j], Len(cl), sell.price, sell.fees, "Closed")

OpenTrade(ords, j, cl) ==
    TradeRecord(ords[j], Len(cl), cl[Len(cl)], RZero, "Open")

TradeRecordsClosedOnly(ords, cl) ==
    [n \in 1..(Len(ords) \div 2) |-> ClosedTrade(ords, 2 * n - 1)]

TradeRecords(ords, cl) ==
    [n \in 1..((Len(ords) + 1) \div 2) |->
        IF 2 * n <= Len(ords)
        THEN ClosedTrade(ords, 2 * n - 1)
        ELSE OpenTrade(ords, 2 * n - 1, cl)]

-----------------------------------------------------------------------------
(* determine_frequency: the modal delta of consecutive timestamps *)

HourSeconds == 3600

DaySeconds == 86400

Deltas(frame) ==
    [k \in 1..(Len(frame) - 1) |-> (frame[k + 1].t - frame[k].t) * HourSeconds]

CountOf(s, x) == Cardinality({k \in DOMAIN s : s[k] = x})

(* Series.mode().iloc[0]: the smallest of the most frequent values *)
ModeOf(s) ==
    CHOOSE x \in Range(s) :
        \A y \in Range(s) :
            \/ CountOf(s, y) < CountOf(s, x)
            \/ (CountOf(s, y) = CountOf(s, x) /\ x <= y)

(* the tolerance test with both bounds excluded *)
FrequencyOfDeltasOpenRange(time_diffs_seconds) ==
    IF Len(time_diffs_seconds) = 0 THEN "1H"
    ELSE LET mode_diff == ModeOf(time_diffs_seconds)
         IN  IF /\ DaySeconds * 95 < mode_diff * 100
                /\ mode_diff * 100 < DaySeconds * 105
             THEN "1D"
             ELSE "1H"

(* determine_frequency from the deltas on: no delta, or the modal delta    *)
(* against the daily range; the hourly range and the default both give 1H  *)
FrequencyOfDeltas(time_diffs_seconds) ==
    IF Len(time_diffs_seconds) = 0 THEN "1H"
    ELSE LET mode_diff == ModeOf(time_diffs_seconds)
         IN  IF /\ DaySeconds * 95 <= mode_diff * 100
                /\ mode_diff * 100 <= DaySeconds * 105
             THEN "1D"
             ELSE IF /\ HourSeconds * 95 <= mode_diff * 100
                     /\ mode_diff * 100 <= HourSeconds * 105
             THEN "1H"
             ELSE "1H"

determine_frequency(frame, override_freq) ==
    IF override_freq # "none" THEN override_freq
    ELSE FrequencyOfDeltas(Deltas(frame))

(* csv_ingest.detect_frequency: the same classification at ingestion *)
detect_frequency(time_diffs_seconds) ==
    IF Len(time_diffs_seconds) = 0 THEN "1H"
    ELSE LET mode_diff == ModeOf(time_diffs_seconds)
         IN  IF /\ DaySeconds * 95 <= mode_diff * 100
                /\ mode_diff * 100 <= DaySeconds * 105
             THEN "1D"
             ELSE "1H"

-----------------------------------------------------------------------------
(* calculate_metrics *)

calculate_buy_and_hold_return(frame) ==
    IF Len(frame) < 2 THEN RZero
    ELSE RDiv(RSub(frame[Len(frame)].usd, frame[1].usd), frame[1].usd)

(* portfolio.total_return(): final value over initial cash, minus one *)
total_return(val, init_cash) ==
    RSub(RDiv(val[Len(val)], init_cash), ROne)

calculate_trades_only_return(val, init_cash, frame) ==
    LET bh == calculate_buy_and_hold_return(frame)
    IN  IF bh = RNeg(ROne) THEN total_return(val, init_cash)
        ELSE RSub(RDiv(RAdd(ROne, total_return(val, init_cash)), RAdd(ROne, bh)),
                  ROne)

RECURSIVE RunMax(_, _)
RunMax(val, k) ==
    IF k = 1 THEN val[1]
    ELSE LET m == RunMax(val, k - 1) IN IF RGt(val[k], m) THEN val[k] ELSE m

Drawdown(val, k) ==
    RSub(RDiv(val[k], RunMax(val, k)), ROne)

(* portfolio.max_drawdown(): the most negative drawdown of the value curve *)
max_drawdown(val) ==
    CHOOSE d \in {Drawdown(val, k) : k \in DOMAIN val} :
        \A k \in DOMAIN val : RLe(d, Drawdown(val, k))

(* One entry of trades_data; timestamps are None when an index is outside  *)
(* the frame.                                                              *)
TradeDict(trade, frame) ==
    LET inside == trade.entry_idx <= Len(frame) /\ trade.exit_idx <= Len(frame)
    IN  [entry_date |-> IF inside THEN frame[trade.entry_idx].t ELSE "None",
         exit_date |-> IF inside THEN frame[trade.exit_idx].t ELSE "None",
         entry_price |-> trade.avg_entry_price,
         exit_price |-> trade.avg_exit_price,
         size |-> trade.size, pnl |-> trade.pnl, return_pct |-> trade.return,
         duration |-> IF inside THEN trade.exit_idx - trade.entry_idx ELSE 0,
         entry_fees |-> trade.entry_fees, exit_fees |-> trade.exit_fees]

(* The index of the close series the portfolio was built on, whose labels  *)
(* records_readable reports as Entry Timestamp and Exit Timestamp.         *)
(* run_backtest and run_multi_dataset_backtest hand over an integer-       *)
(* indexed column; a caller of calculate_metrics may hand over a portfolio *)
(* built on a datetime-indexed series.                                     *)
IndexKind ==
    IF entrypoint = "calculate_metrics" THEN req.index ELSE "int"

(* int(trade.get('Entry Timestamp', ...)) raises TypeError on a Timestamp *)
TradeRowRaises(trade) == IndexKind = "datetime"

(* the loop over trades_df.iterrows(): a row whose conversion raises is    *)
(* logged and skipped                                                      *)
RECURSIVE TradesDataTo(_, _, _)
TradesDataTo(recs, frame, n) ==
    IF n = 0 THEN <<>>
    ELSE IF TradeRowRaises(recs[n]) THEN TradesDataTo(recs, frame, n - 1)
    ELSE Append(TradesDataTo(recs, frame, n - 1), TradeDict(recs[n], frame))

TradesData(recs, frame) == TradesDataTo(recs, frame, Len(recs))

EquityDataOnChange(val, frame) ==
    LET kept == {k \in 1..Min(Len(val), Len(frame)) : k = 1 \/ val[k] # val[k - 1]}
        nth(i) == CHOOSE k \in kept : Cardinality({j \in kept : j <= k}) = i
    IN  [i \in 1..Cardinality(kept) |->
            [timestamp |-> frame[nth(i)].t, equity |-> val[nth(i)]]]

EquityData(val, frame) ==
    [k \in 1..Min(Len(val), Len(frame)) |->
        [timestamp |-> frame[k].t, equity |-> val[k]]]

(* portfolio.returns(): the relative change of the value per bar, the      *)
(* first one against the initial cash                                      *)
Returns(val, init_cash) ==
    [k \in DOMAIN val |->
        RSub(RDiv(val[k], IF k = 1 THEN init_cash ELSE val[k - 1]), ROne)]

Inf == <<1, 0>>

IsInf(x) == x[2] = 0 /\ x[1] # 0

Sign(x) == IF x[1] > 0 THEN 1 ELSE IF x[1] < 0 THEN -1 ELSE 0

Mean(s) == RDiv(SumTo(s, 1, Len(s)), R(Len(s)))

(* the standard deviation (ddof = 1) of two values or more is zero         *)
(* exactly when they are all equal                                         *)
ZeroDeviation(s) == \A k \in DOMAIN s : s[k] = s[1]

(* portfolio.sharpe_ratio(): mean(returns) / std(returns, ddof=1) *        *)
(* sqrt(ann_factor).  NaN with fewer than two returns and for 0 / 0,       *)
(* infinite for a nonzero mean over a zero deviation.  The magnitude of a  *)
(* finite ratio is a square root; the model keeps the finite ratio's sign  *)
(* (-1, 0 or 1), the sign of the mean.                                     *)
sharpe_ratio(val, init_cash) ==
    LET rets == Returns(val, init_cash)
        m == Mean(rets)
    IN  IF Len(rets) < 2 THEN NaN
        ELSE IF ZeroDeviation(rets)
        THEN IF m = RZero THEN NaN ELSE <<Sign(m), 0>>
        ELSE R(Sign(m))

SafeFloatIdentity(x) == x

(* safe_float: NaN and the infinities become 0.0 *)
safe_float(x) ==
    IF x = NaN \/ IsInf(x) THEN RZero ELSE x


MetricsOf(recs, val, cl, init_cash, frame) ==
    [results |->
        [total_return |-> safe_float(total_return(val, init_cash)),
         sharpe |-> safe_float(sharpe_ratio(val, init_cash)),
         max_drawdown |-> safe_float(max_drawdown(val)),
         trades |-> Len(recs),
         buy_and_hold_return |-> safe_float(calculate_buy_and_hold_return(frame)),
         trades_only_return |->
            safe_float(calculate_trades_only_return(val, init_cash, frame))],
     equity |-> EquityData(val, frame),
     trades |-> TradesData(recs, frame),
     freq |-> determine_frequency(frame, "none")]

(* The frame calculate_metrics receives: df_filtered in run_backtest, the  *)
(* truncated price frame in run_multi_dataset_backtest.                    *)
MetricsFrame ==
    IF entrypoint = "run_multi_dataset_backtest"
    THEN SubSeq(price_df_filtered, 1, Len(close))
    ELSE df_filtered

calculate_metrics ==
    /\ pc = "metrics"
    /\ results' = <<MetricsOf(TradeRecords(orders, close), value, close,
                              req.init_cash, MetricsFrame)>>
    /\ pc' = "done"
    /\ UNCHANGED <<inputVars, frameVars, signals, close, entries, exits,
                   freq, simVars, error>>

-----------------------------------------------------------------------------
(* The simulator on its own: every price series and every pair of signal   *)
(* arrays of one length, as run_backtest hands them to from_signals.       *)

SimPrices == {R(100), R(200)}

FeeRates == {RZero, Frac(1, 10)}

SlippageRates == {RZero, Frac(1, 10)}

InitCash == R(100)

NoFrame == <<>>

(* A daily frame whose price column is the given array *)
DailyFrame(cl) ==
    [k \in DOMAIN cl |->
        [idx |-> k - 1, t |-> 24 * k, v |-> RZero, usd |-> cl[k],
         v_transformed |-> RZero, usd_transformed |-> cl[k]]]

SimStartIdle ==
    /\ bar = 1
    /\ cash = RZero
    /\ position = RZero
    /\ orders = <<>>
    /\ value = <<>>
    /\ cycles = 0

SimStart ==
    /\ bar = 1
    /\ cash = req.init_cash
    /\ position = RZero
    /\ orders = <<>>
    /\ value = <<>>
    /\ cycles = 0

InitSim ==
    /\ hyperliquid_trading_service = HyperliquidTradingService
    /\ entrypoint = "from_signals"
    /\ \E n \in 1..MaxBars :
          /\ close \in [1..n -> SimPrices]
          /\ entries \in [1..n -> BOOLEAN]
          /\ exits \in [1..n -> BOOLEAN]
    /\ \E f \in FeeRates, s \in SlippageRates :
          req = [fees |-> f, slippage |-> s, init_cash |-> InitCash]
    /\ df = NoFrame /\ df1 = NoFrame /\ df2 = NoFrame /\ price_df = NoFrame
    /\ df_filtered = DailyFrame(close)
    /\ df1_filtered = NoFrame /\ df2_filtered = NoFrame
    /\ price_df_filtered = NoFrame
    /\ signals = SignalFrame(Labels(df_filtered), entries, exits)
    /\ freq = determine_frequency(df_filtered, "none")
    /\ SimStart
    /\ results = <<>>
    /\ error = "none"
    /\ pc = "simulate"

NextSim ==
    \/ SimBar
    \/ SimEnd
    \/ calculate_metrics

SpecSim == InitSim /\ [][NextSim]_vars

-----------------------------------------------------------------------------
(* Claims about the simulator, checked under SpecSim *)

SimulatingBar == pc = "simulate" /\ bar <= Len(close)

(* C1: a signal that does not match the state changes nothing: an entry    *)
(* signal on a bar where the simulator is LONG, and an exit signal on a    *)
(* bar where it is FLAT, leave position size, cash and state as they were. *)
C1_MismatchedSignalIgnored ==
    [][(SimulatingBar /\ ((Long /\ entries[bar]) \/ (~Long /\ exits[bar])))
        => (position' = position /\ cash' = cash /\ orders' = orders)]_vars

(* an entry signal was processed on a bar after the position was opened,   *)
(* and an exit signal was processed while flat                             *)
C1_Witness ==
    /\ pc = "simulate"
    /\ Len(orders) = 1
    /\ \E k \in 2..(bar - 1) : entries[k] /\ ~exits[k] /\ orders[1].idx < k
    /\ \E k \in 1..(bar - 1) : exits[k] /\ ~entries[k] /\ k < orders[1].idx

OpenAtEnd == IF Long THEN 1 ELSE 0

-----------------------------------------------------------------------------
(* The steps of run_backtest and run_multi_dataset_backtest up to the call *)
(* of from_signals                                                         *)

EmptyPeriodError == "ValueError: No hay datos disponibles para el periodo"

Single == entrypoint = "run_backtest"

Multi == entrypoint = "run_multi_dataset_backtest"

(* app.py, run_backtest_endpoint: the frame run_backtest receives carries  *)
(* the transformed columns                                                 *)
ApplyTransformations ==
    /\ pc = "transform"
    /\ df' = apply_transformations(df, req.transform)
    /\ pc' = "filter"
    /\ UNCHANGED <<entrypoint, req, df1, df2, price_df, frameVars, signals,
                   close, entries, exits, freq, simVars, results, error,
                   hyperliquid_trading_service>>

Fail(e) ==
    /\ error' = e
    /\ pc' = "failed"

(* the calls of filter_data_by_period that open both functions *)
FilterByPeriod ==
    /\ pc = "filter"
    /\ IF Multi
       THEN IF \E f \in {df1, df2, price_df} : FilterRaises(f, req.period)
            THEN /\ \E e \in FilterErrors : Fail(e)
                 /\ UNCHANGED frameVars
            ELSE /\ df1_filtered' = filter_data_by_period(df1, req.period)
                 /\ df2_filtered' = filter_data_by_period(df2, req.period)
                 /\ price_df_filtered' = filter_data_by_period(price_df, req.period)
                 /\ pc' = "check_empty"
                 /\ UNCHANGED <<df_filtered, error>>
       ELSE IF FilterRaises(df, req.period)
            THEN /\ \E e \in FilterErrors : Fail(e)
                 /\ UNCHANGED frameVars
            ELSE /\ df_filtered' = filter_data_by_period(df, req.period)
                 /\ pc' = IF Single THEN "check_empty" ELSE "returned"
                 /\ UNCHANGED <<df1_filtered, df2_filtered, price_df_filtered,
                                error>>
    /\ UNCHANGED <<inputVars, signals, close, entries, exits, freq, simVars,
                   results>>

AnyFilteredEmptyFirstOnly ==
    IF Multi THEN df1_filtered = <<>> ELSE df_filtered = <<>>

AnyFilteredEmpty ==
    IF Multi
    THEN df1_filtered = <<>> \/ df2_filtered = <<>> \/ price_df_filtered = <<>>
    ELSE df_filtered = <<>>

(* "if df_filtered.empty: raise ValueError", then determine_frequency *)
CheckEmpty ==
    /\ pc = "check_empty"
    /\ IF AnyFilteredEmpty
       THEN /\ Fail(EmptyPeriodError)
            /\ freq' = freq
       ELSE /\ freq' = IF Multi
                       THEN determine_frequency(price_df_filtered, "none")
                       ELSE determine_frequency(df_filtered, req.override_freq)
            /\ pc' = "signals"
            /\ error' = error
    /\ UNCHANGED <<inputVars, frameVars, signals, close, entries, exits,
                   simVars, results>>

(* generate_signals and the arrays prepared for vectorbt *)
GenerateSignals ==
    /\ pc = "signals"
    /\ Single
    /\ LET sig == generate_signals(df_filtered, req)
       IN  IF SignalsBranch(req) = "raise"
           THEN /\ Fail("ValueError")
                /\ UNCHANGED <<signals, close, entries, exits>>
           ELSE /\ signals' = sig
                /\ close' = Column(df_filtered, "usd_transformed")
                /\ entries' = sig.entries
                /\ exits' = sig.exits
                /\ pc' = "simulate"
                /\ error' = error
    /\ UNCHANGED <<inputVars, frameVars, freq, simVars, results>>

(* generate_multi_dataset_crossover_signals_impl and the alignment to      *)
(* min(len(price_df_filtered), len(signals))                               *)
GenerateMultiSignals ==
    /\ pc = "signals"
    /\ Multi
    /\ LET err == MultiSignalsError(df1_filtered, df2_filtered,
                                    price_df_filtered, req.strategy)
           sig == generate_multi_dataset_crossover_signals_impl(
                      df1_filtered, df2_filtered, price_df_filtered, req.strategy)
           min_length == Min(Len(price_df_filtered), Len(sig.entries))
       IN  IF err # "none"
           THEN /\ Fail(err)
                /\ UNCHANGED <<signals, close, entries, exits>>
           ELSE /\ signals' = sig
                /\ close' = Take(Column(price_df_filtered, "usd"), min_length)
                /\ entries' = Take(sig.entries, min_length)
                /\ exits' = Take(sig.exits, min_length)
                /\ pc' = "simulate"
                /\ error' = error
    /\ UNCHANGED <<inputVars, frameVars, freq, simVars, results>>

-----------------------------------------------------------------------------
(* Input frames *)

(* 2025-03-01 00:00, the latest timestamp of the generated frames *)
Latest0 == YearStart(2025) + 24 * 59

RawRow(i, t, v, usd) == [idx |-> i, t |-> t, v |-> v, usd |-> usd]

RECURSIVE SortedInstants(_)
SortedInstants(S) ==
    IF S = {} THEN <<>>
    ELSE LET m == CHOOSE x \in S : \A y \in S : x <= y
         IN  <<m>> \o SortedInstants(S \ {m})

(* a frame as load_ticks_by_dataset returns it: ORDER BY t, RangeIndex *)
FrameOfInstants(S) ==
    LET ts == SortedInstants(S)
    IN  [k \in DOMAIN ts |-> RawRow(k - 1, ts[k], R(1), R(100))]

(* `old` daily ticks that end 30 days before the first of the recent       *)
(* daily ticks, which carry the given values and end at Latest0            *)
FrameOf(old, vs, us) ==
    LET n == Len(vs)
    IN  [k \in 1..(old + n) |->
            IF k <= old
            THEN RawRow(k - 1, Latest0 - 24 * (n + 30 + old - k), R(1), R(100))
            ELSE RawRow(k - 1, Latest0 - 24 * (old + n - k), vs[k - old],
                        us[k - old])]

Const(n, x) == [k \in 1..n |-> x]

OldCounts == {0, MaxOld}

IndicatorValues == {R(1), R(3)}

PriceValues == {R(100), R(103)}

NotRun ==
    /\ df_filtered = NoFrame /\ df1_filtered = NoFrame
    /\ df2_filtered = NoFrame /\ price_df_filtered = NoFrame
    /\ signals = SignalFrame(<<>>, <<>>, <<>>)
    /\ close = <<>> /\ entries = <<>> /\ exits = <<>>
    /\ freq = "none"
    /\ results = <<>>
    /\ error = "none"

-----------------------------------------------------------------------------
(* filter_data_by_period on its own: every period tag, on frames whose     *)
(* ticks lie around the cutoffs of that tag                                *)

TagYear(period) ==
    CHOOSE y \in 2015..2025 :
        period = <<"2015", "2016", "2017", "2018", "2019", "2020", "2021",
                   "2022", "2023", "2024", "2025">>[y - 2014]

Instants(period) ==
    {Latest0, Latest0 - 1, Latest0 - 24 * 8, Latest0 - 24 * 30,
     YearStart(2025), YearStart(2025) - 1}
    \cup (IF period \in WindowTags
          THEN {Latest0 - 24 * WindowDays(period),
                Latest0 - 24 * WindowDays(period) - 1,
                Latest0 - 24 * WindowDays(period) - 2}
          ELSE IF period \in YearTags
          THEN {YearStart(TagYear(period)), YearStart(TagYear(period)) - 1,
                YearStart(TagYear(period) + 1) - 1,
                YearStart(TagYear(period) + 1)}
          ELSE {})

InitFilter ==
    /\ hyperliquid_trading_service = HyperliquidTradingService
    /\ entrypoint = "filter_data_by_period"
    /\ \E p \in PeriodTags :
          /\ req = [period |-> p]
          /\ \E S \in SUBSET Instants(p) :
                /\ Cardinality(S) <= MaxFilterTicks
                /\ df = FrameOfInstants(S)
    /\ df1 = NoFrame /\ df2 = NoFrame /\ price_df = NoFrame
    /\ NotRun
    /\ SimStartIdle
    /\ pc = "filter"

NextFilter == FilterByPeriod

SpecFilter == InitFilter /\ [][NextFilter]_vars

(* the cutoff the claim names: the latest timestamp minus the tag's day    *)
(* count, or Jan 1 of the latest timestamp's year for ytd                  *)
ClaimDays ==
    [p \in WindowTags |->
        IF p = "1w" THEN 7 ELSE IF p = "1m" THEN 30 ELSE IF p = "3m" THEN 90
        ELSE IF p = "6m" THEN 180
        ELSE 365 * (CHOOSE n \in 1..10 :
                        p = <<"1y", "2y", "3y", "4y", "5y", "6y", "7y", "8y",
                              "9y", "10y">>[n])]

ClaimCutoff ==
    LET latest == df[Len(df)].t
    IN  IF req.period = "ytd" THEN YearStart(YearOf(latest))
        ELSE latest - 24 * ClaimDays[req.period]

(* C8: for a relative period tag the filter returns exactly the ticks at   *)
(* or after the cutoff; the result is a contiguous suffix of the series    *)
(* that contains the latest tick; under 1w nothing older than 7 days       *)
(* before the latest timestamp is kept.                                    *)
C8_RelativeWindowKeepsSuffixFromCutoff ==
    (pc = "returned" /\ req.period \in RelativeTags) =>
        /\ \E k \in 1..Len(df) : df_filtered = SubSeq(df, k, Len(df))
        /\ \A j \in DOMAIN df :
              (df[j].t >= ClaimCutoff) <=> (df[j] \in Range(df_filtered))
        /\ req.period = "1w" =>
              \A i \in DOMAIN df_filtered :
                  df_filtered[i].t >= df[Len(df)].t - 7 * 24

(* a tick exactly on the cutoff is kept, the tick one hour older dropped *)
C8_Witness ==
    /\ pc = "returned" /\ req.period = "1w"
    /\ Len(df) = 3 /\ Len(df_filtered) = 2
    /\ df[2].t = df[3].t - 7 * 24
    /\ df[1].t = df[3].t - 7 * 24 - 1

(* C9 as stated: a calendar-year tag keeps exactly the ticks of that year *)
C9_YearTagKeepsOnlyThatYear ==
    (pc = "returned" /\ req.period \in YearTags) =>
        LET InYear(row) == YearOf(row.t) = TagYear(req.period)
        IN  df_filtered = SelectSeq(df, InYear)

-----------------------------------------------------------------------------
(* run_backtest and run_multi_dataset_backtest from call to return *)

Costs == [fees |-> Frac(1, 10), slippage |-> RZero]

PipelinePeriods == {"all", "1w"}

UsdTransforms ==
    {[type |-> "none", period |-> 1], [type |-> "sma", period |-> 2],
     [type |-> "ema", period |-> 2], [type |-> "median", period |-> 3]}

CrossoverOf(kind, entry_direction, exit_direction) ==
    [entry_fast_period |-> 1, entry_slow_period |-> 2,
     exit_fast_period |-> 1, exit_slow_period |-> 2,
     entry_type |-> kind, exit_type |-> kind,
     entry_direction |-> entry_direction, exit_direction |-> exit_direction]

SingleStrategies ==
    {[strategy_type |-> "threshold", crossover_strategy |-> <<>>],
     [strategy_type |-> "crossover",
      crossover_strategy |-> <<CrossoverOf("sma", "up", "down")>>],
     [strategy_type |-> "crossover",
      crossover_strategy |-> <<CrossoverOf("ema", "up", "up")>>]}

SingleRequest(p, tr, st) ==
    [period |-> p, fees |-> Costs.fees, slippage |-> Costs.slippage,
     init_cash |-> InitCash, apply_to |-> "v", override_freq |-> "none",
     strategy_type |-> st.strategy_type,
     threshold_entry |-> R(2), threshold_exit |-> R(2),
     crossover_strategy |-> st.crossover_strategy,
     multi_dataset_crossover_strategy |-> <<>>,
     transform |-> [v |-> [type |-> "none", period |-> 1], usd |-> tr]]

MultiStrategyOf(entry_direction, exit_direction, tp, sl) ==
    [dataset1_indicator |-> "v", dataset1_ma_type |-> "sma",
     dataset1_ma_period |-> 1,
     dataset2_indicator |-> "v", dataset2_ma_type |-> "sma",
     dataset2_ma_period |-> 1,
     entry_direction |-> entry_direction, exit_direction |-> exit_direction,
     take_profit_pct |-> 3, stop_loss_pct |-> 1,
     use_take_profit |-> tp, use_stop_loss |-> sl]

MultiRequest(p, st) ==
    [period |-> p, fees |-> Costs.fees, slippage |-> Costs.slippage,
     init_cash |-> InitCash, strategy |-> st]

ExitDirections == {"down", "up"}

InitSingle ==
    /\ hyperliquid_trading_service = HyperliquidTradingService
    /\ entrypoint = "run_backtest"
    /\ \E old \in OldCounts, n \in 0..MaxTicks :
          \E vs \in [1..n -> IndicatorValues], us \in [1..n -> PriceValues] :
              df = FrameOf(old, vs, us)
    /\ \E p \in PipelinePeriods, tr \in UsdTransforms, st \in SingleStrategies :
          req = SingleRequest(p, tr, st)
    /\ df1 = NoFrame /\ df2 = NoFrame /\ price_df = NoFrame
    /\ NotRun
    /\ SimStart
    /\ pc = "transform"

(* two indicator frames of independent length and history, without the    *)
(* take-profit / stop-loss override                                        *)
InitMulti ==
    /\ hyperliquid_trading_service = HyperliquidTradingService
    /\ entrypoint = "run_multi_dataset_backtest"
    /\ \E old \in OldCounts, n \in 0..MaxTicks :
          \E vs \in [1..n -> IndicatorValues] :
              df1 = FrameOf(old, vs, Const(n, R(100)))
    /\ \E old \in OldCounts, n \in 0..MaxTicks :
          df2 = FrameOf(old, Const(n, R(2)), Const(n, R(100)))
    /\ \E n \in 0..MaxTicks :
          price_df = FrameOf(0, Const(n, R(1)), Const(n, R(100)))
    /\ \E p \in {"all", "1w"}, d \in ExitDirections :
          req = MultiRequest(p, MultiStrategyOf("up", d, FALSE, FALSE))
    /\ df = NoFrame
    /\ NotRun
    /\ SimStart
    /\ pc = "filter"

Init == InitSingle \/ InitMulti

Next ==
    \/ ApplyTransformations
    \/ FilterByPeriod
    \/ CheckEmpty
    \/ GenerateSignals
    \/ GenerateMultiSignals
    \/ SimBar
    \/ SimEnd
    \/ calculate_metrics

Spec == Init /\ [][Next]_vars

-----------------------------------------------------------------------------
(* run_multi_dataset_backtest with the take-profit / stop-loss override:   *)
(* two indicator frames with the same timestamps, a price frame of any     *)
(* length, last week's window                                              *)

TpSlFlags == {<<TRUE, FALSE>>, <<FALSE, TRUE>>, <<TRUE, TRUE>>}

InitTpSl ==
    /\ hyperliquid_trading_service = HyperliquidTradingService
    /\ entrypoint = "run_multi_dataset_backtest"
    /\ \E old \in OldCounts, n \in 1..MaxScanTicks :
          \E vs \in [1..n -> IndicatorValues] :
              /\ df1 = FrameOf(old, vs, Const(n, R(100)))
              /\ df2 = FrameOf(old, Const(n, R(2)), Const(n, R(100)))
    /\ \E n \in 1..MaxScanTicks :
          \E us \in [1..n -> PriceValues] :
              price_df = FrameOf(0, Const(n, R(1)), us)
    /\ \E d \in ExitDirections, fl \in TpSlFlags :
          req = MultiRequest("1w", MultiStrategyOf("up", d, fl[1], fl[2]))
    /\ df = NoFrame
    /\ NotRun
    /\ SimStart
    /\ pc = "filter"

NextTpSl ==
    \/ FilterByPeriod
    \/ CheckEmpty
    \/ GenerateMultiSignals
    \/ SimBar
    \/ SimEnd
    \/ calculate_metrics

SpecTpSl == InitTpSl /\ [][NextTpSl]_vars

-----------------------------------------------------------------------------
(* Claims about the two entry points, checked under Spec *)

Handed == pc \in {"simulate", "metrics", "done"}

C7_OrdersPricedFromRawPrice ==
    (Single /\ Handed) =>
        \A j \in DOMAIN orders :
            orders[j].price =
                RMul(df_filtered[orders[j].idx].usd,
                     IF orders[j].side = "Buy"
                     THEN RAdd(ROne, req.slippage)
                     ELSE RSub(ROne, req.slippage))

SomeFilteredFrameEmpty ==
    \/ Single /\ df_filtered = <<>>
    \/ Multi /\ (df1_filtered = <<>> \/ df2_filtered = <<>>
                 \/ price_df_filtered = <<>>)

(* C6 as stated: for any two non-empty series and any period tag the       *)
(* multi-series signals come from ordinal alignment: min(len1, len2)       *)
(* signals, element k compared with element k, and price and signals cut   *)
(* to one common length.                                                   *)
C6_OrdinalAlignment ==
    (Multi /\ ~SomeFilteredFrameEmpty /\ pc \in {"simulate", "metrics", "done", "failed"})
        => /\ pc # "failed"
           /\ Len(signals.entries) = Min(Len(df1_filtered), Len(df2_filtered))
           /\ Len(signals.exits) = Len(signals.entries)
           /\ Len(close) = Min(Len(price_df_filtered), Len(signals.entries))
           /\ Len(entries) = Len(close) /\ Len(exits) = Len(close)
           /\ \A k \in DOMAIN signals.entries :
                 signals.entries[k] =
                    (/\ k > 1
                     /\ RGt(df1_filtered[k].v, df2_filtered[k].v)
                     /\ RLe(df1_filtered[k - 1].v, df2_filtered[k - 1].v))

-----------------------------------------------------------------------------
(* Claims about the take-profit / stop-loss override, checked under        *)
(* SpecTpSl                                                                *)

Natural == NaturalSignals(df1_filtered, df2_filtered, req.strategy)

Prices == Column(price_df_filtered, "usd")

(* the first natural exit from bar `from` on, or one past the series *)
ClaimNextExit(from) ==
    LET cand == {x \in DOMAIN Natural.exits : x >= from /\ Natural.exits[x]}
    IN  IF cand = {} THEN Len(Natural.exits) + 1
        ELSE CHOOSE x \in cand : \A y \in cand : x <= y

ClaimHit(i, e) ==
    LET change == RDiv(RSub(Prices[i], Prices[e]), Prices[e])
    IN  \/ req.strategy.use_take_profit
           /\ RGe(change, Frac(req.strategy.take_profit_pct, 100))
        \/ req.strategy.use_stop_loss
           /\ RLe(change, RNeg(Frac(req.strategy.stop_loss_pct, 100)))

(* the bar the claim forces an exit on for the entry at e, or 0, when the  *)
(* search for the next natural exit starts at bar e + skip                 *)
ClaimForcedExit(e, skip) ==
    LET hits == {i \in (e + 1)..(ClaimNextExit(e + skip) - 1) :
                    i <= Len(Prices) /\ ClaimHit(i, e)}
    IN  IF hits = {} THEN 0 ELSE CHOOSE i \in hits : \A j \in hits : i <= j

ClaimExits(skip) ==
    [k \in DOMAIN Natural.exits |->
        \/ Natural.exits[k]
        \/ \E e \in DOMAIN Natural.entries :
              Natural.entries[e] /\ ClaimForcedExit(e, skip) = k]

(* C5 as stated: for every entry signal the scan runs from the next bar    *)
(* up to, not including, the next natural exit and forces one exit, on     *)
(* the first bar that reaches the take-profit or the stop-loss level; no   *)
(* other exit is forced.  The next natural exit is read either way: the    *)
(* first one from the entry bar on, or the first one after it.             *)
C5_ForcedExitAtFirstHitBeforeNaturalExit ==
    (Multi /\ Handed) =>
        (signals.exits = ClaimExits(0) \/ signals.exits = ClaimExits(1))

-----------------------------------------------------------------------------
(* run_backtest called with every combination of frequency override,       *)
(* strategy_type and optional strategy dicts, on hourly and daily frames   *)

MaxRequestTicks == 3

(* n ticks `step` hours apart that end at Latest0 *)
SteppedFrame(step, vs, us) ==
    [k \in DOMAIN vs |->
        RawRow(k - 1, Latest0 - step * (Len(vs) - k), vs[k], us[k])]

TickSteps == {1, 24}

FreqOverrides == {"none", "1D", "1H"}

StrategyTypes == {"threshold", "crossover", "multi_dataset_crossover", "momentum"}

RequestOf(ov, ty, cs, ms) ==
    [SingleRequest("all", [type |-> "none", period |-> 1],
                   [strategy_type |-> ty, crossover_strategy |-> cs])
        EXCEPT !.override_freq = ov, !.multi_dataset_crossover_strategy = ms]

InitRequest ==
    /\ hyperliquid_trading_service = HyperliquidTradingService
    /\ entrypoint = "run_backtest"
    /\ \E step \in TickSteps, n \in 1..MaxRequestTicks :
          \E vs \in [1..n -> IndicatorValues] :
              df = SteppedFrame(step, vs, Const(n, R(100)))
    /\ \E ov \in FreqOverrides, ty \in StrategyTypes,
          cs \in {<<>>, <<CrossoverOf("sma", "up", "down")>>},
          ms \in {<<>>, <<MultiStrategyOf("up", "down", FALSE, FALSE)>>} :
          req = RequestOf(ov, ty, cs, ms)
    /\ df1 = NoFrame /\ df2 = NoFrame /\ price_df = NoFrame
    /\ NotRun
    /\ SimStart
    /\ pc = "transform"

NextRequest ==
    \/ ApplyTransformations
    \/ FilterByPeriod
    \/ CheckEmpty
    \/ GenerateSignals
    \/ SimBar
    \/ SimEnd
    \/ calculate_metrics

SpecRequest == InitRequest /\ [][NextRequest]_vars

(* C11 as stated: a supplied frequency override always wins: the frequency *)
(* handed to the simulation and the frequency reported in the returned     *)
(* result both equal the override.                                         *)
C11_OverrideAlwaysWins ==
    (Single /\ req.override_freq # "none") =>
        /\ pc \in {"signals", "simulate", "metrics", "done"}
              => freq = req.override_freq
        /\ pc = "done" => results[1].freq = req.override_freq

(* exactly one strategy dict is supplied and it is the one strategy_type   *)
(* names; the two thresholds are plain arguments of every call             *)
ClaimValidStrategyConfig ==
    \/ /\ req.strategy_type = "threshold"
       /\ req.crossover_strategy = <<>>
       /\ req.multi_dataset_crossover_strategy = <<>>
    \/ /\ req.strategy_type = "crossover"
       /\ req.crossover_strategy # <<>>
       /\ req.multi_dataset_crossover_strategy = <<>>
    \/ /\ req.strategy_type = "multi_dataset_crossover"
       /\ req.crossover_strategy = <<>>
       /\ req.multi_dataset_crossover_strategy # <<>>

(* C12 as stated: signal generation succeeds only when exactly one         *)
(* configuration variant is supplied and matches strategy_type; in every   *)
(* other combination it fails with the invalid-strategy error and          *)
(* produces no signals.                                                    *)
C12_OnlyMatchingVariantSucceeds ==
    (Single /\ pc \in {"simulate", "metrics", "done", "failed"}) =>
        IF ClaimValidStrategyConfig
        THEN pc # "failed"
        ELSE /\ pc = "failed"
             /\ error = "ValueError"
             /\ signals = SignalFrame(<<>>, <<>>, <<>>)

-----------------------------------------------------------------------------
(* Claims about the returned result, checked under Spec *)

(* the ticks the simulation ran on: the period-filtered frame, cut to the  *)
(* length of the signals for the multi-series entry point                  *)
SimulatedTicks ==
    IF Multi
    THEN Take(price_df_filtered,
              Min(Len(price_df_filtered),
                  Min(Len(df1_filtered), Len(df2_filtered))))
    ELSE df_filtered

(* C13: the returned equity curve has exactly one point per bar of the     *)
(* period-filtered (for multi-series: truncated) price series, the         *)
(* timestamp of point i is the timestamp of tick i, and the timestamps     *)
(* strictly increase.                                                      *)
C13_OneEquityPointPerTick ==
    pc = "done" =>
        LET equity == results[1].equity
        IN  /\ Len(equity) = Len(SimulatedTicks)
            /\ Len(equity) = Len(close)
            /\ \A i \in DOMAIN equity : equity[i].timestamp = SimulatedTicks[i].t
            /\ \A i \in 2..Len(equity) :
                  equity[i - 1].timestamp < equity[i].timestamp

(* a multi-series run whose price frame was cut, with a bar on which       *)
(* nothing happened                                                        *)
C13_Witness ==
    /\ pc = "done" /\ Multi
    /\ Len(results[1].equity) >= 2
    /\ Len(results[1].equity) < Len(price_df_filtered)
    /\ results[1].equity[1].equity = results[1].equity[2].equity

(* C14: in every backtest the first equity point equals the initial cash:  *)
(* no generator raises a signal on the first bar, so nothing is bought on  *)
(* it.                                                                     *)
C14_FirstEquityPointIsInitialCash ==
    /\ Handed => ~entries[1]
    /\ pc = "done" => results[1].equity[1].equity = req.init_cash

(* a run that paid fees on an entry on the second bar *)
C14_Witness ==
    /\ pc = "done"
    /\ orders # <<>> /\ orders[1].idx = 2 /\ orders[1].fees # RZero
    /\ results[1].equity[2].equity # req.init_cash

-----------------------------------------------------------------------------
(* The three signal generators on their own, each called with the          *)
(* arguments the entry points hand to it                                   *)

MaxSeries == 5

SeriesValues == {RZero, R(1), R(2)}

ThresholdValues == {Frac(1, 2), R(1), Frac(3, 2)}

(* periods of the simple moving average of the first series *)
MultiMaPeriods == {1, 2}

(* the slow period of the exit pair, other than that of the entry pair *)
ExitSlowPeriod == 3

(* a transformed frame whose indicator column is the given series *)
SeriesFrame(vs) ==
    [k \in DOMAIN vs |->
        [idx |-> k - 1, t |-> 24 * k, v |-> vs[k], usd |-> R(100),
         v_transformed |-> vs[k], usd_transformed |-> R(100)]]

InitGenerators ==
    /\ hyperliquid_trading_service = HyperliquidTradingService
    /\ \/ /\ entrypoint = "generate_threshold_signals"
          /\ \E te \in ThresholdValues, tx \in ThresholdValues :
                req = [threshold_entry |-> te, threshold_exit |-> tx,
                       apply_to |-> "v"]
          /\ \E n \in 1..MaxSeries : \E vs \in [1..n -> SeriesValues] :
                df = SeriesFrame(vs)
          /\ df1 = NoFrame /\ df2 = NoFrame /\ price_df = NoFrame
       \/ /\ entrypoint = "generate_crossover_signals"
          /\ \E kind \in {"sma", "ema"}, exit_kind \in {"sma", "ema"},
                d1 \in ExitDirections, d2 \in ExitDirections :
                /\ kind # exit_kind
                /\ req = [apply_to |-> "v",
                          crossover_strategy |->
                             [CrossoverOf(kind, d1, d2)
                                 EXCEPT !.exit_type = exit_kind,
                                        !.exit_slow_period = ExitSlowPeriod]]
          /\ \E n \in 1..MaxSeries : \E vs \in [1..n -> SeriesValues] :
                df = SeriesFrame(vs)
          /\ df1 = NoFrame /\ df2 = NoFrame /\ price_df = NoFrame
       \/ /\ entrypoint = "generate_multi_dataset_crossover_signals_impl"
          /\ \E tp \in BOOLEAN, sl \in BOOLEAN, period \in MultiMaPeriods :
                req = [strategy |->
                          [MultiStrategyOf("up", "down", tp, sl)
                              EXCEPT !.dataset1_ma_period = period]]
          /\ \E old \in OldCounts, n \in 1..MaxScanTicks :
                /\ \E vs \in [1..n -> IndicatorValues] :
                      /\ df1 = filter_data_by_period(
                                  FrameOf(old, vs, Const(n, R(100))), "1w")
                      /\ df2 = filter_data_by_period(
                                  FrameOf(old, Const(n, R(2)), Const(n, R(100))), "1w")
                /\ \E m \in {n - 1, n, n + 1} \cap (1..MaxScanTicks) :
                      \E us \in [1..m -> PriceValues] :
                          price_df = FrameOf(0, Const(m, R(1)), us)
          /\ df = NoFrame
    /\ NotRun
    /\ SimStartIdle
    /\ pc = "call"

CallThreshold ==
    /\ pc = "call"
    /\ entrypoint = "generate_threshold_signals"
    /\ signals' = generate_threshold_signals(df, req.threshold_entry,
                                             req.threshold_exit, req.apply_to)
    /\ pc' = "returned"
    /\ UNCHANGED <<inputVars, frameVars, close, entries, exits, freq, simVars,
                   results, error>>

CallCrossover ==
    /\ pc = "call"
    /\ entrypoint = "generate_crossover_signals"
    /\ signals' = generate_crossover_signals(df, req.apply_to,
                                             req.crossover_strategy)
    /\ pc' = "returned"
    /\ UNCHANGED <<inputVars, frameVars, close, entries, exits, freq, simVars,
                   results, error>>

CallMultiImpl ==
    /\ pc = "call"
    /\ entrypoint = "generate_multi_dataset_crossover_signals_impl"
    /\ LET err == MultiSignalsError(df1, df2, price_df, req.strategy)
       IN  IF err # "none"
           THEN /\ Fail(err)
                /\ signals' = signals
           ELSE /\ signals' = generate_multi_dataset_crossover_signals_impl(
                                  df1, df2, price_df, req.strategy)
                /\ pc' = "returned"
                /\ error' = error
    /\ UNCHANGED <<inputVars, frameVars, close, entries, exits, freq, simVars,
                   results>>

NextGenerators == CallThreshold \/ CallCrossover \/ CallMultiImpl

SpecGenerators == InitGenerators /\ [][NextGenerators]_vars

(* the first i bars of a frame *)
Prefix(frame, i) == SubSeq(frame, 1, Min(i, Len(frame)))

(* the signals the same call returns when its inputs end after bar i *)
SignalsOnPrefix(i) ==
    CASE entrypoint = "generate_threshold_signals" ->
            generate_threshold_signals(Prefix(df, i), req.threshold_entry,
                                       req.threshold_exit, req.apply_to)
      [] entrypoint = "generate_crossover_signals" ->
            generate_crossover_signals(Prefix(df, i), req.apply_to,
                                       req.crossover_strategy)
      [] entrypoint = "generate_multi_dataset_crossover_signals_impl" ->
            generate_multi_dataset_crossover_signals_impl(
                Prefix(df1, i), Prefix(df2, i), Prefix(price_df, i), req.strategy)

PrefixRaises(i) ==
    /\ entrypoint = "generate_multi_dataset_crossover_signals_impl"
    /\ MultiSignalsError(Prefix(df1, i), Prefix(df2, i), Prefix(price_df, i),
                         req.strategy) # "none"

(* C15: no lookahead.  The entry and the exit decision at bar i are the    *)
(* ones the generator takes on the input cut after bar i, so two inputs    *)
(* that agree up to bar i get the same decisions at bar i, for the         *)
(* threshold, crossover and multi-series generators and for the forced     *)
(* take-profit / stop-loss exits.                                          *)
C15_NoLookahead ==
    pc = "returned" =>
        \A i \in DOMAIN signals.entries :
            /\ ~PrefixRaises(i)
            /\ LET cut == SignalsOnPrefix(i)
               IN  /\ cut.entries[i] = signals.entries[i]
                   /\ cut.exits[i] = signals.exits[i]

(* a forced exit followed by bars that carry a natural exit *)
C15_Witness ==
    /\ pc = "returned"
    /\ entrypoint = "generate_multi_dataset_crossover_signals_impl"
    /\ \E i \in DOMAIN signals.exits, j \in DOMAIN signals.exits :
          /\ i < j
          /\ signals.exits[i]
          /\ ~NaturalSignals(df1, df2, req.strategy).exits[i]
          /\ NaturalSignals(df1, df2, req.strategy).exits[j]

-----------------------------------------------------------------------------
(* The simulation loop of from_signals as one function of its arguments:   *)
(* the account after the first k bars.                                     *)

RECURSIVE SimFold(_, _, _, _, _, _, _)
SimFold(cl, en, ex, k, init_cash, fees, slippage) ==
    IF k = 0 THEN [cash |-> init_cash, position |-> RZero, value |-> <<>>]
    ELSE LET before == SimFold(cl, en, ex, k - 1, init_cash, fees, slippage)
             long == before.position # RZero
             sig == ResolveConflict(en[k], ex[k])
             buy == BuyOrder(k, cl[k], before.cash, fees, slippage)
             sell == SellOrder(k, cl[k], before.position, fees, slippage)
             cash_now == IF WantsBuy(sig, long)
                         THEN RSub(before.cash,
                                   RAdd(RMul(buy.size, buy.price), buy.fees))
                         ELSE IF WantsSell(sig, long)
                         THEN RAdd(before.cash,
                                   RSub(RMul(sell.size, sell.price), sell.fees))
                         ELSE before.cash
             position_now == IF WantsBuy(sig, long)
                             THEN RAdd(before.position, buy.size)
                             ELSE IF WantsSell(sig, long) THEN RZero
                             ELSE before.position
         IN  [cash |-> cash_now, position |-> position_now,
              value |-> Append(before.value,
                               RAdd(cash_now, RMul(position_now, cl[k])))]

FromSignals(cl, en, ex, init_cash, fees, slippage) ==
    SimFold(cl, en, ex, Len(cl), init_cash, fees, slippage)

(* the total return of the same prices and signals under other rates *)
ReturnUnder(fees, slippage) ==
    total_return(FromSignals(close, entries, exits, req.init_cash, fees,
                             slippage).value, req.init_cash)

(* C16: fee monotonicity.  For fixed prices, entries, exits and initial    *)
(* cash, a run with a fee rate or a slippage at least as high (each within *)
(* [0, 0.1]) never has a higher total_return.  The function of the rates   *)
(* is the simulation itself: at the rates of the request it gives the      *)
(* value curve the loop produced.                                          *)
C16_FeeMonotonicity ==
    pc = "done" =>
        /\ FromSignals(close, entries, exits, req.init_cash, req.fees,
                       req.slippage).value = value
        /\ ReturnUnder(req.fees, req.slippage) = results[1].results.total_return
        /\ \A f2 \in FeeRates, s2 \in SlippageRates :
              (RGe(f2, req.fees) /\ RGe(s2, req.slippage)) =>
                  RLe(ReturnUnder(f2, s2), results[1].results.total_return)

(* a run that traded, and that returns strictly less at the higher rates *)
C16_Witness ==
    /\ pc = "done"
    /\ orders # <<>>
    /\ req.fees = RZero /\ req.slippage = RZero
    /\ RLt(ReturnUnder(Frac(1, 10), RZero), results[1].results.total_return)
    /\ RLt(ReturnUnder(RZero, Frac(1, 10)), results[1].results.total_return)

-----------------------------------------------------------------------------
(* Scenario A: a constant price series *)

ConstantPrice == \A k \in DOMAIN close : close[k] = R(100)

(* the trades of the result that an exit order closed *)
ClosedTradeNumbers == {n \in DOMAIN results[1].trades : 2 * n <= Len(orders)}

FeesPaid(trade) == RAdd(trade.entry_fees, trade.exit_fees)

(* what entering at 100 * (1 + slippage) and leaving at 100 * (1 - slippage) *)
(* costs a trade of this size                                               *)
SlippagePaid(trade) ==
    RMul(RMul(R(200), req.slippage), trade.size)

(* C17 as stated: on a constant price of 100, for any entries and exits    *)
(* and any admissible fee and slippage, every closed trade has pnl equal   *)
(* to -(entry_fee + exit_fee).                                             *)
C17_ClosedTradeLosesOnlyFees ==
    (pc = "done" /\ ConstantPrice) =>
        \A n \in ClosedTradeNumbers :
            results[1].trades[n].pnl = RNeg(FeesPaid(results[1].trades[n]))

(* C17 amended: on a constant price of 100 every closed trade has pnl      *)
(* equal to -(entry_fee + exit_fee) - 200 * slippage * size, which is      *)
(* -(entry_fee + exit_fee) exactly when the slippage is zero.              *)
C17_ClosedTradeLosesFeesAndSlippage ==
    (pc = "done" /\ ConstantPrice) =>
        \A n \in ClosedTradeNumbers :
            LET trade == results[1].trades[n]
            IN  /\ trade.pnl = RSub(RNeg(FeesPaid(trade)), SlippagePaid(trade))
                /\ (trade.pnl = RNeg(FeesPaid(trade))) <=> (req.slippage = RZero)

(* a closed trade on the constant series under fees and slippage *)
C17_Witness ==
    /\ pc = "done"
    /\ ConstantPrice
    /\ ClosedTradeNumbers # {}
    /\ req.slippage = Frac(1, 10)
    /\ req.fees = Frac(1, 10)

-----------------------------------------------------------------------------
(* Scenario B: the threshold strategy on the series 0, 1, 2, 1, 0 with     *)
(* both thresholds at 1                                                    *)

ScenarioB ==
    /\ entrypoint = "generate_threshold_signals"
    /\ pc = "returned"
    /\ Column(df, "v_transformed") = <<RZero, R(1), R(2), R(1), RZero>>
    /\ req.threshold_entry = R(1)
    /\ req.threshold_exit = R(1)

(* the indices (labels, counted from 0) at which an entry signal fires *)
EntryIndices == {signals.index[k] : k \in {j \in DOMAIN signals.entries :
                                              signals.entries[j]}}

(* C18 as stated: on the series [0,1,2,1,0] with entry and exit threshold  *)
(* 1, exactly one entry signal fires and it fires at index 2.              *)
C18_OneEntryAtIndexTwo ==
    ScenarioB => EntryIndices = {2}

(* C18 amended: exactly one entry signal fires and it fires at index 1,    *)
(* where the series goes from 0 (below the threshold) to 1 (at it).        *)
C18_OneEntryAtIndexOne ==
    ScenarioB =>
        /\ EntryIndices = {1}
        /\ Cardinality({j \in DOMAIN signals.entries : signals.entries[j]}) = 1

C18_Witness ==
    /\ ScenarioB
    /\ signals.entries[2]

-----------------------------------------------------------------------------
(* Non-finite numbers in the result *)

IsFinite(x) == x[2] # 0

(* the five metrics as the portfolio computes them, before safe_float *)
RawMetrics ==
    [total_return |-> total_return(value, req.init_cash),
     sharpe |-> sharpe_ratio(value, req.init_cash),
     max_drawdown |-> max_drawdown(value),
     buy_and_hold_return |-> calculate_buy_and_hold_return(MetricsFrame),
     trades_only_return |->
        calculate_trades_only_return(value, req.init_cash, MetricsFrame)]

TradeNumberFields ==
    {"entry_price", "exit_price", "size", "pnl", "return_pct", "entry_fees",
     "exit_fees"}

(* C19: no non-finite number is surfaced in a returned result.  Each of    *)
(* total_return, sharpe (zero standard deviation included), max_drawdown,  *)
(* buy_and_hold_return and trades_only_return is 0.0 where the computed    *)
(* value is NaN or infinite and the computed value otherwise, and no       *)
(* equity point and no numeric trade field is NaN or infinite.             *)
C19_NoNonFiniteSurfaced ==
    pc = "done" =>
        /\ \A m \in DOMAIN RawMetrics :
              /\ IsFinite(results[1].results[m])
              /\ results[1].results[m] =
                    IF IsFinite(RawMetrics[m]) THEN RawMetrics[m] ELSE RZero
        /\ \A k \in DOMAIN results[1].equity :
              IsFinite(results[1].equity[k].equity)
        /\ \A n \in DOMAIN results[1].trades : \A fld \in TradeNumberFields :
              IsFinite(results[1].trades[n][fld])

(* a run of two bars or more that never trades: every return is zero and   *)
(* the computed sharpe ratio is 0 / 0                                      *)
C19_Witness ==
    /\ pc = "done"
    /\ Len(value) >= 2
    /\ orders = <<>>
    /\ RawMetrics.sharpe = NaN
    /\ results[1].results.sharpe = RZero

-----------------------------------------------------------------------------
(* calculate_metrics on its own: a portfolio simulated over every price    *)
(* series and pair of signal arrays of one length, built on an integer-    *)
(* indexed or on a datetime-indexed close series, and the frame of the     *)
(* same ticks.                                                             *)

IndexKinds == {"int", "datetime"}

InitPortfolio ==
    /\ hyperliquid_trading_service = HyperliquidTradingService
    /\ entrypoint = "calculate_metrics"
    /\ \E n \in 1..MaxBars :
          /\ close \in [1..n -> SimPrices]
          /\ entries \in [1..n -> BOOLEAN]
          /\ exits \in [1..n -> BOOLEAN]
    /\ \E kind \in IndexKinds :
          req = [fees |-> Frac(1, 10), slippage |-> RZero,
                 init_cash |-> InitCash, index |-> kind]
    /\ df = NoFrame /\ df1 = NoFrame /\ df2 = NoFrame /\ price_df = NoFrame
    /\ df_filtered = DailyFrame(close)
    /\ df1_filtered = NoFrame /\ df2_filtered = NoFrame
    /\ price_df_filtered = NoFrame
    /\ signals = SignalFrame(Labels(df_filtered), entries, exits)
    /\ freq = determine_frequency(df_filtered, "none")
    /\ SimStart
    /\ results = <<>>
    /\ error = "none"
    /\ pc = "simulate"

NextPortfolio ==
    \/ SimBar
    \/ SimEnd
    \/ calculate_metrics

SpecPortfolio == InitPortfolio /\ [][NextPortfolio]_vars

-----------------------------------------------------------------------------
(* HyperliquidTradingService.get_trade_history: the fills of the exchange  *)
(* turned into trade rows                                                  *)

MaxFills == 2

FillSizes == {RZero, R(1), R(-2)}

FillPrices == {RZero, R(100)}

FillFeeValues == {RZero, Frac(3, 200), Frac(9, 200)}

RAbs(x) == <<Abs(x[1]), x[2]>>

MakerFeePct == Frac(15, 1000)

(* one row of the trades list; fee / volume raises ZeroDivisionError when  *)
(* the volume is 0.0, which only the feePercentage expression guards       *)
FillVolume(fill) == RMul(RAbs(fill.sz), fill.px)

FillRowRaises(fill) == FillVolume(fill) = RZero

FillRow(fill) ==
    LET size == RAbs(fill.sz)
        volume == FillVolume(fill)
        pct == RMul(RDiv(fill.fee, volume), R(100))
    IN  [size |-> size, price |-> fill.px, volume |-> volume, fee |-> fill.fee,
         feePercentage |-> IF RGt(volume, RZero) THEN pct ELSE RZero,
         orderType |-> IF RLe(pct, MakerFeePct) THEN "maker" ELSE "taker"]

(* user_fills[:limit] *)
FirstFills(fills, limit) == [k \in 1..Min(limit, Len(fills)) |-> fills[k]]

(* the value get_trade_history returns; any exception of the loop is       *)
(* caught and the call returns the empty list                              *)
get_trade_history(info_client, user_fills, limit) ==
    IF ~info_client THEN <<>>
    ELSE IF user_fills = <<>> THEN <<>>
    ELSE LET taken == FirstFills(user_fills, limit)
         IN  IF \E k \in DOMAIN taken : FillRowRaises(taken[k]) THEN <<>>
             ELSE [k \in DOMAIN taken |-> FillRow(taken[k])]

InitFills ==
    /\ hyperliquid_trading_service = HyperliquidTradingService
    /\ entrypoint = "get_trade_history"
    /\ \E n \in 0..MaxFills, limit \in 1..MaxFills, connected \in BOOLEAN :
          \E fills \in [1..n -> [sz : FillSizes, px : FillPrices,
                                 fee : FillFeeValues]] :
              req = [info_client |-> connected, user_fills |-> fills,
                     limit |-> limit]
    /\ df = NoFrame /\ df1 = NoFrame /\ df2 = NoFrame /\ price_df = NoFrame
    /\ NotRun
    /\ SimStartIdle
    /\ pc = "call"

CallGetTradeHistory ==
    /\ pc = "call"
    /\ entrypoint = "get_trade_history"
    /\ results' = <<get_trade_history(req.info_client, req.user_fills, req.limit)>>
    /\ pc' = "returned"
    /\ UNCHANGED <<inputVars, frameVars, signals, close, entries, exits, freq,
                   simVars, error>>

NextFills == CallGetTradeHistory

SpecFills == InitFills /\ [][NextFills]_vars

(* the fee as a percentage of the volume, 0 when the volume is not positive *)
ClaimFeePct(fill) ==
    IF RGt(FillVolume(fill), RZero)
    THEN RMul(RDiv(fill.fee, FillVolume(fill)), R(100))
    ELSE RZero

(* C21: every fill of the history (the first `limit` fills) is returned,   *)
(* a fill of zero volume included, with fee percentage fee / volume x 100  *)
(* (0 when the volume is not positive) and with order type maker exactly   *)
(* when that percentage is at most 0.015, taker otherwise.                 *)
C21_MakerIffFeePctAtMostThreshold ==
    (pc = "returned" /\ entrypoint = "get_trade_history" /\ req.info_client) =>
        LET taken == FirstFills(req.user_fills, req.limit)
            trades == results[1]
        IN  /\ Len(trades) = Len(taken)
            /\ \A k \in DOMAIN taken :
                  /\ trades[k].feePercentage = ClaimFeePct(taken[k])
                  /\ (trades[k].orderType = "maker")
                        <=> RLe(ClaimFeePct(taken[k]), MakerFeePct)
                  /\ trades[k].orderType \in {"maker", "taker"}

-----------------------------------------------------------------------------
(* The threshold rule, bar by bar *)

ThresholdReturned ==
    /\ entrypoint = "generate_threshold_signals"
    /\ pc = "returned"

ThresholdSeries == Column(df, SignalColumn(req.apply_to))

(* C22: for the threshold strategy on series s, for every index i >= 1,    *)
(* entries[i] is true exactly when s[i-1] < entry_threshold and            *)
(* s[i] >= entry_threshold, and exits[i] exactly when                      *)
(* s[i-1] > exit_threshold and s[i] <= exit_threshold; entries[0] and      *)
(* exits[0] are false.  Index i is position i + 1 of the arrays.           *)
C22_ThresholdRule ==
    ThresholdReturned =>
        LET s == ThresholdSeries
        IN  /\ DOMAIN signals.entries = DOMAIN s
            /\ DOMAIN signals.exits = DOMAIN s
            /\ \A k \in DOMAIN s :
                  IF k = 1
                  THEN ~signals.entries[k] /\ ~signals.exits[k]
                  ELSE /\ signals.entries[k] <=>
                            (RLt(s[k - 1], req.threshold_entry)
                                /\ RGe(s[k], req.threshold_entry))
                       /\ signals.exits[k] <=>
                            (RGt(s[k - 1], req.threshold_exit)
                                /\ RLe(s[k], req.threshold_exit))

(* a series that lands exactly on the exit threshold from above, and an    *)
(* entry elsewhere, with two different thresholds                          *)
C22_Witness ==
    /\ ThresholdReturned
    /\ req.threshold_entry # req.threshold_exit
    /\ \E k \in DOMAIN signals.exits :
          signals.exits[k] /\ ThresholdSeries[k] = req.threshold_exit
    /\ \E k \in DOMAIN signals.entries : signals.entries[k]

(* C28: for the threshold strategy, for every series and every pair of     *)
(* thresholds (equal or different, in either order), no index has          *)
(* entries[i] and exits[i] both true.                                      *)
C28_ThresholdNeverBothSignals ==
    ThresholdReturned =>
        \A k \in DOMAIN signals.entries :
            ~(signals.entries[k] /\ signals.exits[k])

(* an exit threshold below the entry threshold, a value strictly between   *)
(* the two, and both kinds of signal in the returned frame                 *)
C28_Witness ==
    /\ ThresholdReturned
    /\ RLt(req.threshold_exit, req.threshold_entry)
    /\ \E k \in DOMAIN signals.entries : signals.entries[k]
    /\ \E k \in DOMAIN signals.exits : signals.exits[k]
    /\ \E k \in DOMAIN ThresholdSeries :
          /\ RGt(ThresholdSeries[k], req.threshold_exit)
          /\ RLt(ThresholdSeries[k], req.threshold_entry)

-----------------------------------------------------------------------------
(* The single-series crossover rule, bar by bar *)

CrossoverReturned ==
    /\ entrypoint = "generate_crossover_signals"
    /\ pc = "returned"

(* the crossing rule of the claim at index i >= 1 (position k = i + 1) *)
ClaimCross(direction, fast, slow, k) ==
    IF direction = "up"
    THEN RGt(fast[k], slow[k]) /\ RLe(fast[k - 1], slow[k - 1])
    ELSE RLt(fast[k], slow[k]) /\ RGe(fast[k - 1], slow[k - 1])

(* C23: for the single-series crossover, for every index i >= 1 a signal   *)
(* of direction up is true exactly when fast[i] > slow[i] and              *)
(* fast[i-1] <= slow[i-1], of direction down exactly when                  *)
(* fast[i] < slow[i] and fast[i-1] >= slow[i-1]; index 0 never fires;      *)
(* entries follow the entry pair of averages and the entry direction       *)
(* only, exits the exit pair and the exit direction only.                  *)
C23_CrossoverRule ==
    CrossoverReturned =>
        LET cs == req.crossover_strategy
            s == Column(df, SignalColumn(req.apply_to))
            entry_fast == CrossoverMA(s, cs.entry_type, cs.entry_fast_period)
            entry_slow == CrossoverMA(s, cs.entry_type, cs.entry_slow_period)
            exit_fast == CrossoverMA(s, cs.exit_type, cs.exit_fast_period)
            exit_slow == CrossoverMA(s, cs.exit_type, cs.exit_slow_period)
        IN  /\ DOMAIN signals.entries = DOMAIN s
            /\ DOMAIN signals.exits = DOMAIN s
            /\ \A k \in DOMAIN s :
                  IF k = 1
                  THEN ~signals.entries[k] /\ ~signals.exits[k]
                  ELSE /\ signals.entries[k] <=>
                            ClaimCross(cs.entry_direction, entry_fast, entry_slow, k)
                       /\ signals.exits[k] <=>
                            ClaimCross(cs.exit_direction, exit_fast, exit_slow, k)

(* entry and exit pairs of different kinds and periods give different      *)
(* signals under the same direction                                        *)
C23_Witness ==
    /\ CrossoverReturned
    /\ req.crossover_strategy.entry_type # req.crossover_strategy.exit_type
    /\ req.crossover_strategy.entry_direction
          = req.crossover_strategy.exit_direction
    /\ \E k \in DOMAIN signals.entries :
          signals.entries[k] /\ ~signals.exits[k]
    /\ \E k \in DOMAIN signals.exits :
          signals.exits[k] /\ ~signals.entries[k]

-----------------------------------------------------------------------------
(* C24: the take-profit / stop-loss override only adds exits.  Every bar   *)
(* with a natural exit still has an exit in the returned series, natural   *)
(* exits after a triggered bar included, and every bar that differs from   *)
(* the natural exits is a forced exit strictly after some entry signal e   *)
(* and strictly before the first natural exit at or after e.               *)
C24_OverrideOnlyAddsExitsInsideScan ==
    (Multi /\ Handed /\ UsesTpSl(req.strategy)) =>
        /\ \A k \in DOMAIN Natural.exits :
              Natural.exits[k] => signals.exits[k]
        /\ \A k \in DOMAIN signals.exits :
              (signals.exits[k] /\ ~Natural.exits[k]) =>
                  \E e \in DOMAIN Natural.entries :
                      /\ Natural.entries[e]
                      /\ e < k
                      /\ k < ClaimNextExit(e)

-----------------------------------------------------------------------------
(* Frequency detection on its own: series of timestamps in seconds whose   *)
(* deltas sit on and around the bounds of the two tolerance ranges         *)

MaxStamps == 4

DeltaSeconds == {0, 3420, 3600, 82079, 82080, 86400, 90720, 90721}

(* the timestamps that start at 0 and advance by the given deltas *)
RECURSIVE StampsOf(_)
StampsOf(ds) ==
    IF ds = <<>> THEN <<0>>
    ELSE LET before == StampsOf(SubSeq(ds, 1, Len(ds) - 1))
         IN  Append(before, before[Len(before)] + ds[Len(ds)])

(* df['t'].diff().dropna().dt.total_seconds() *)
TimeDiffsSeconds(ts) == [k \in 1..(Len(ts) - 1) |-> ts[k + 1] - ts[k]]

InitFrequency ==
    /\ hyperliquid_trading_service = HyperliquidTradingService
    /\ entrypoint \in {"determine_frequency", "detect_frequency"}
    /\ \/ req = [t |-> <<>>]
       \/ \E n \in 1..MaxStamps : \E ds \in [1..(n - 1) -> DeltaSeconds] :
             req = [t |-> StampsOf(ds)]
    /\ df = NoFrame /\ df1 = NoFrame /\ df2 = NoFrame /\ price_df = NoFrame
    /\ NotRun
    /\ SimStartIdle
    /\ pc = "call"

CallDetermineFrequency ==
    /\ pc = "call"
    /\ entrypoint = "determine_frequency"
    /\ freq' = FrequencyOfDeltas(TimeDiffsSeconds(req.t))
    /\ pc' = "returned"
    /\ UNCHANGED <<inputVars, frameVars, signals, close, entries, exits,
                   simVars, results, error>>

CallDetectFrequency ==
    /\ pc = "call"
    /\ entrypoint = "detect_frequency"
    /\ freq' = detect_frequency(TimeDiffsSeconds(req.t))
    /\ pc' = "returned"
    /\ UNCHANGED <<inputVars, frameVars, signals, close, entries, exits,
                   simVars, results, error>>

NextFrequency ==
    \/ CallDetermineFrequency
    \/ CallDetectFrequency

SpecFrequency == InitFrequency /\ [][NextFrequency]_vars

FrequencyReturned ==
    /\ entrypoint \in {"determine_frequency", "detect_frequency"}
    /\ pc = "returned"

ClaimDeltas == TimeDiffsSeconds(req.t)

ClaimCount(x) == Cardinality({k \in DOMAIN ClaimDeltas : ClaimDeltas[k] = x})

(* the most frequent deltas; several when the counts tie *)
ClaimModalDeltas ==
    {x \in Range(ClaimDeltas) :
        \A y \in Range(ClaimDeltas) : ClaimCount(y) <= ClaimCount(x)}

(* the smallest of them, which is what mode().iloc[0] takes *)
ClaimModalDelta ==
    CHOOSE x \in ClaimModalDeltas : \A y \in ClaimModalDeltas : x <= y

ClaimWithinFivePercent(x, centre) ==
    /\ centre * 95 <= x * 100
    /\ x * 100 <= centre * 105

(* C25: without an override the detected frequency is daily exactly when   *)
(* the most frequent delta between consecutive timestamps (the smallest    *)
(* one when several are equally frequent) lies within 5% of 86400 s,       *)
(* bounds included, and hourly in every other case: a modal delta within   *)
(* 5% of 3600 s, any other modal delta, and fewer than two ticks.          *)
C25_DailyIffModalDeltaNearDay ==
    FrequencyReturned =>
        /\ freq \in {"1D", "1H"}
        /\ freq = "1D" <=>
              (Len(req.t) >= 2 /\ ClaimWithinFivePercent(ClaimModalDelta, 86400))
        /\ Len(req.t) < 2 => freq = "1H"

(* the modal delta sits on a bound of the daily range *)
C25_Witness ==
    /\ FrequencyReturned
    /\ Len(req.t) >= 3
    /\ ClaimModalDelta \in {82080, 90720}
    /\ Cardinality(ClaimModalDeltas) = 1
    /\ freq = "1D"

-----------------------------------------------------------------------------
(* Missing moving-average values *)

MultiReturned ==
    /\ entrypoint = "generate_multi_dataset_crossover_signals_impl"
    /\ pc = "returned"

(* the longest simple-moving-average period of the two series *)
ClaimSmaPeriod ==
    LET st == req.strategy
        p1 == IF st.dataset1_ma_type = "sma" THEN st.dataset1_ma_period ELSE 1
        p2 == IF st.dataset2_ma_type = "sma" THEN st.dataset2_ma_period ELSE 1
    IN  IF p1 >= p2 THEN p1 ELSE p2

(* C26: a comparison against a missing moving-average value is never       *)
(* treated as true.  In the multi-series crossover with a simple moving    *)
(* average of period p on either series, entries[i] and exits[i] are       *)
(* false for every index i < p (positions 1..p), and in every strategy     *)
(* family the returned signals hold only true and false.                   *)
C26_MissingComparisonIsFalse ==
    /\ MultiReturned =>
          \A k \in DOMAIN signals.entries :
              k <= ClaimSmaPeriod => (~signals.entries[k] /\ ~signals.exits[k])
    /\ (pc = "returned" /\ entrypoint \in {"generate_threshold_signals",
              "generate_crossover_signals",
              "generate_multi_dataset_crossover_signals_impl"}) =>
          /\ \A k \in DOMAIN signals.entries : signals.entries[k] \in BOOLEAN
          /\ \A k \in DOMAIN signals.exits : signals.exits[k] \in BOOLEAN

(* period 2: the first series is above the second from the start, which    *)
(* would be a crossing at index 1 against an average read as below         *)
C26_Witness ==
    /\ MultiReturned
    /\ req.strategy.dataset1_ma_period = 2
    /\ Len(signals.entries) >= 3
    /\ Column(df1, "v")[1] = R(3) /\ Column(df1, "v")[2] = R(3)
    /\ \E k \in DOMAIN signals.exits : signals.exits[k]

-----------------------------------------------------------------------------
(* C27: in both entry points, for every input that passes the empty-period *)
(* check, the price, entries and exits arrays handed to the simulator are  *)
(* non-empty and of one length: the simulator's empty-input and            *)
(* length-mismatch errors cannot occur.                                    *)
C27_SimulatorArraysAligned ==
    Handed =>
        /\ Len(close) >= 1
        /\ Len(entries) = Len(close)
        /\ Len(exits) = Len(close)

(* the multi-series entry point with a price series longer than the        *)
(* signals, cut to their length                                            *)
C27_Witness ==
    /\ Multi
    /\ Handed
    /\ Len(price_df_filtered) > Len(signals.entries)
    /\ Len(close) = Len(signals.entries)

-----------------------------------------------------------------------------
(* C29: with take-profit or stop-loss enabled, run_multi_dataset_backtest  *)
(* reads no price and writes no exit outside the arrays: for three         *)
(* non-empty series of any relative lengths and any positions of the       *)
(* entry signals the scan completes without an index error.                *)
C29_TpSlScanStaysInsideArrays ==
    (Multi /\ UsesTpSl(req.strategy)) => error # "IndexError"

(***************************************************************************)
(* The Hyperliquid endpoints of app.py against the one shared              *)
(* HyperliquidTradingService.  Each request first resolves its dependency  *)
(* get_current_user (a plain def, which the framework runs on a worker     *)
(* thread and awaits), then runs the body of its `async def` handler on    *)
(* the event loop.  The bodies contain no await: connect and the service   *)
(* call that follows are synchronous, so a body is one step.               *)
(***************************************************************************)
MaxRequests == 2

Users == {"alice", "bob", "carol", "dave"}
Tokens == Users \cup {"invalid"}

(* auth_service.verify_token: the user of a valid token, None otherwise *)
verify_token(token) == IF token \in Users THEN token ELSE "None"

(* auth_service.get_hyperliquid_settings: the row of the user; carol has   *)
(* stored no API key, dave one that is not a private key                   *)
get_hyperliquid_settings(user_id) ==
    CASE user_id = "alice" -> [main_wallet |-> "0xA", api_secret_key |-> "keyA"]
      [] user_id = "bob"   -> [main_wallet |-> "0xB", api_secret_key |-> "keyB"]
      [] user_id = "carol" -> [main_wallet |-> "0xC", api_secret_key |-> "None"]
      [] OTHER             -> [main_wallet |-> "0xD", api_secret_key |-> "bad"]

(* eth_account.Account.from_key raises on anything but a private key *)
FromKeyRaises(api_private_key) == api_private_key \notin {"keyA", "keyB"}

(* connect with the client of an earlier call kept once one exists *)
ConnectKeepingClient(self, main_wallet_address, api_private_key, api_up) ==
    IF ~api_up \/ FromKeyRaises(api_private_key)
    THEN [self |-> [self EXCEPT !.is_connected = FALSE], ret |-> FALSE]
    ELSE [self |-> [self EXCEPT
                      !.info_client = "Info",
                      !.exchange_client =
                          IF self.exchange_client = NoClient
                          THEN api_private_key ELSE self.exchange_client,
                      !.account_address = main_wallet_address,
                      !.secret_key = api_private_key,
                      !.is_connected = TRUE],
          ret |-> TRUE]

(* HyperliquidTradingService.connect: the attributes are assigned in the   *)
(* order of the code, so a failure leaves the earlier ones assigned and    *)
(* the later ones as they were; the Exchange is built from the account of  *)
(* api_private_key and is named here by that key.  Returns the instance    *)
(* after the call and the returned flag.                                   *)
connect(self, main_wallet_address, api_private_key, api_up) ==
    IF ~api_up
    THEN [self |-> [self EXCEPT !.is_connected = FALSE], ret |-> FALSE]
    ELSE IF FromKeyRaises(api_private_key)
    THEN [self |-> [self EXCEPT !.info_client = "Info",
                                !.is_connected = FALSE],
          ret |-> FALSE]
    ELSE [self |-> [self EXCEPT !.info_client = "Info",
                                !.exchange_client = api_private_key,
                                !.account_address = main_wallet_address,
                                !.secret_key = api_private_key,
                                !.is_connected = TRUE],
          ret |-> TRUE]

Universe == {"BTC"}

(* HyperliquidTradingService.place_order: the returned success flag and    *)
(* what the exchange received, signed by the account of exchange_client    *)
place_order(self, coin, limit_px, order_type, exchange_ok) ==
    IF self.exchange_client = NoClient \/ self.info_client = NoClient
       \/ coin \notin Universe
    THEN [success |-> FALSE, sent |-> <<>>]
    ELSE [success |-> exchange_ok,
          sent |-> <<[signer |-> self.exchange_client, coin |-> coin,
                      call |-> IF order_type = "LIMIT" /\ limit_px > 0
                               THEN "order" ELSE "market_open"]>>]

OrderData == {[coin |-> "BTC", limit_px |-> 0],
              [coin |-> "BTC", limit_px |-> 100],
              [coin |-> "XXX", limit_px |-> 0]}

Requests ==
    [endpoint : {"positions"}, token : Tokens, order_data : {"None"}]
    \cup [endpoint : {"order"}, token : Tokens, order_data : OrderData]

InitOrders ==
    /\ hyperliquid_trading_service = HyperliquidTradingService
    /\ entrypoint = "app"
    /\ \E n \in 1..MaxRequests :
          /\ req \in [1..n -> Requests]
          /\ pc = [i \in 1..n |-> "depends"]
          /\ results = [i \in 1..n |-> 0]
    /\ df = NoFrame /\ df1 = NoFrame /\ df2 = NoFrame /\ price_df = NoFrame
    /\ df_filtered = NoFrame /\ df1_filtered = NoFrame
    /\ df2_filtered = NoFrame /\ price_df_filtered = NoFrame
    /\ signals = SignalFrame(<<>>, <<>>, <<>>)
    /\ close = <<>> /\ entries = <<>> /\ exits = <<>>
    /\ freq = "none"
    /\ error = "none"
    /\ SimStartIdle

(* app.py, get_current_user: 401 on a token that names no user *)
GetCurrentUser(i) ==
    /\ pc[i] = "depends"
    /\ IF verify_token(req[i].token) = "None"
       THEN /\ results' = [results EXCEPT ![i] = 401]
            /\ pc' = [pc EXCEPT ![i] = "responded"]
       ELSE /\ pc' = [pc EXCEPT ![i] = "handler"]
            /\ UNCHANGED results
    /\ UNCHANGED <<entrypoint, req, df, df1, df2, price_df, frameVars, signals,
                   close, entries, exits, freq, simVars, error,
                   hyperliquid_trading_service>>

(* app.py, place_hyperliquid_order: the whole body.  `orders` records what *)
(* the exchange received together with the request that sent it.           *)
PlaceHyperliquidOrder(i, api_up, exchange_ok) ==
    /\ pc[i] = "handler"
    /\ req[i].endpoint = "order"
    /\ LET current_user == verify_token(req[i].token)
           settings == get_hyperliquid_settings(current_user)
           c == connect(hyperliquid_trading_service, settings.main_wallet,
                        settings.api_secret_key, api_up)
           limit_px == req[i].order_data.limit_px
           order_type == IF limit_px > 0 THEN "LIMIT" ELSE "MARKET"
           result == place_order(c.self, req[i].order_data.coin, limit_px,
                                 order_type, exchange_ok)
       IN  IF settings.api_secret_key = "None"
           THEN /\ results' = [results EXCEPT ![i] = 404]
                /\ UNCHANGED <<hyperliquid_trading_service, orders>>
           ELSE IF ~c.ret
           THEN /\ hyperliquid_trading_service' = c.self
                /\ results' = [results EXCEPT ![i] = 500]
                /\ UNCHANGED orders
           ELSE /\ hyperliquid_trading_service' = c.self
                /\ orders' = orders \o
                       [k \in DOMAIN result.sent |->
                           [request |-> i, signer |-> result.sent[k].signer,
                            coin |-> result.sent[k].coin,
                            call |-> result.sent[k].call]]
                /\ results' = [results EXCEPT
                                 ![i] = IF result.success THEN 200 ELSE 400]
    /\ pc' = [pc EXCEPT ![i] = "responded"]
    /\ UNCHANGED <<entrypoint, req, df, df1, df2, price_df, frameVars, signals,
                   close, entries, exits, freq, bar, cash, position, value,
                   cycles, error>>

(* app.py, get_hyperliquid_positions: the whole body; get_positions only   *)
(* reads through info_client                                               *)
GetHyperliquidPositions(i, api_up) ==
    /\ pc[i] = "handler"
    /\ req[i].endpoint = "positions"
    /\ LET current_user == verify_token(req[i].token)
           settings == get_hyperliquid_settings(current_user)
           c == connect(hyperliquid_trading_service, settings.main_wallet,
                        settings.api_secret_key, api_up)
       IN  IF settings.api_secret_key = "None"
           THEN /\ results' = [results EXCEPT ![i] = 404]
                /\ UNCHANGED hyperliquid_trading_service
           ELSE /\ hyperliquid_trading_service' = c.self
                /\ results' = [results EXCEPT
                                 ![i] = IF c.ret THEN 200 ELSE 500]
    /\ pc' = [pc EXCEPT ![i] = "responded"]
    /\ UNCHANGED <<entrypoint, req, df, df1, df2, price_df, frameVars, signals,
                   close, entries, exits, freq, simVars, error>>

NextOrders ==
    \/ \E i \in DOMAIN req : GetCurrentUser(i)
    \/ \E i \in DOMAIN req : \E api_up \in BOOLEAN, exchange_ok \in BOOLEAN :
          PlaceHyperliquidOrder(i, api_up, exchange_ok)
    \/ \E i \in DOMAIN req : \E api_up \in BOOLEAN :
          GetHyperliquidPositions(i, api_up)

SpecOrders == InitOrders /\ [][NextOrders]_vars

(* C30: whatever the order in which the requests of different users are    *)
(* handled against the shared service, every order the exchange received   *)
(* is signed with the API key of the user whose request sent it.           *)
C30_OrderSignedWithRequestersKey ==
    entrypoint = "app" =>
        \A k \in DOMAIN orders :
            orders[k].signer =
                get_hyperliquid_settings(
                    verify_token(req[orders[k].request].token)).api_secret_key

(* the requests of two users were in flight together and the order of the  *)
(* second was placed on the service the first had left connected with its  *)
(* own key                                                                 *)
C30_Witness ==
    /\ entrypoint = "app"
    /\ Len(orders) = 2
    /\ orders[1].signer # orders[2].signer
    /\ orders[1].request # orders[2].request
    /\ hyperliquid_trading_service.exchange_client = orders[2].signer

=============================================================================
